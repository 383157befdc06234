--------------------------- MODULE RecoveryProofs ---------------------------
(***************************************************************************)
(* Proofs about Recovery, and with it about Installer: the types, what a   *)
(* session may change, what its verification sees, what a rollback chooses *)
(* and a boot starts, and what a session that nothing disturbs leaves on   *)
(* the disk, over any number of disks, sessions, failing commands, updates *)
(* and snapshots.                                                          *)
(***************************************************************************)
EXTENDS Recovery, SequenceTheorems, TLAPS

----------------------------------------------------------------------------
(* Sequences *)

LEMMA Concatenated ==
  ASSUME NEW S, NEW l \in Seq(S), NEW r \in Seq(S), NEW t \in Seq(S),
         Len(t) = Len(l) + Len(r),
         \A i \in 1 .. Len(l) : t[i] = l[i],
         \A i \in 1 .. Len(r) : t[Len(l) + i] = r[i]
  PROVE  l \o r = t
<1>1. Len(l) \in Nat /\ Len(r) \in Nat BY LenProperties
<1>2. /\ l \o r \in Seq(S) /\ Len(l \o r) = Len(l) + Len(r)
      /\ \A i \in 1 .. Len(l) + Len(r) :
           (l \o r)[i] = IF i <= Len(l) THEN l[i] ELSE r[i - Len(l)]
  BY ConcatProperties
<1> DEFINE j == l \o r
<1>3. /\ j \in Seq(S) /\ Len(j) = Len(t)
      /\ \A i \in 1 .. Len(l) + Len(r) :
           j[i] = IF i <= Len(l) THEN l[i] ELSE r[i - Len(l)]
  BY <1>2
<1>4. j = l \o r OBVIOUS
<1> HIDE DEF j
<1>5. ASSUME NEW i \in 1 .. Len(j) PROVE j[i] = t[i]
  <2>1. CASE i <= Len(l) BY <2>1, <1>1, <1>3
  <2>2. CASE i > Len(l)
    <3>1. i - Len(l) \in 1 .. Len(r) /\ Len(l) + (i - Len(l)) = i BY <2>2, <1>1, <1>3
    <3>2. j[i] = r[i - Len(l)] BY <2>2, <1>1, <1>3
    <3>3. t[Len(l) + (i - Len(l))] = r[i - Len(l)] BY <3>1
    <3> QED BY <3>1, <3>2, <3>3
  <2> QED BY <2>1, <2>2, <1>1, <1>3
<1>6. j = t BY <1>3, <1>5, SeqEqual
<1> QED BY <1>4, <1>6

LEMMA RemovedAt ==
  ASSUME NEW S, NEW s \in Seq(S), NEW i \in DOMAIN s
  PROVE  /\ RemoveAt(s, i) \in Seq(S) /\ ToSet(RemoveAt(s, i)) \subseteq ToSet(s)
         /\ DOMAIN RemoveAt(s, i) = 1 .. Len(s) - 1
         /\ \A k \in 1 .. Len(s) - 1 : RemoveAt(s, i)[k] = s[IF k < i THEN k ELSE k + 1]
<1>1. DOMAIN s = 1 .. Len(s) /\ Len(s) \in Nat /\ \A k \in 1 .. Len(s) : s[k] \in S
  BY LenProperties
<1> DEFINE a == SubSeq(s, 1, i - 1)
           b == SubSeq(s, i + 1, Len(s))
<1>2. a \in Seq(S) /\ Len(a) = i - 1 /\ \A k \in 1 .. i - 1 : a[k] = s[k]
  <2>1. \A k \in 1 .. i - 1 : s[k] \in S BY <1>1
  <2>2. i - 1 \in Int /\ 1 \in Int /\ i - 1 >= 0 BY <1>1
  <2> QED BY <2>1, <2>2, SubSeqProperties
<1>3. b \in Seq(S) /\ Len(b) = Len(s) - i /\ \A k \in 1 .. Len(s) - i : b[k] = s[i + k]
  <2>1. \A k \in i + 1 .. Len(s) : s[k] \in S BY <1>1
  <2>2. i + 1 \in Int /\ Len(s) \in Int /\ i <= Len(s) BY <1>1
  <2> HIDE DEF a
  <2> QED BY <2>1, <2>2, SubSeqProperties
<1> HIDE DEF a, b
<1>4. /\ a \o b \in Seq(S) /\ Len(a \o b) = Len(a) + Len(b)
      /\ \A k \in 1 .. Len(a) + Len(b) :
           (a \o b)[k] = IF k <= Len(a) THEN a[k] ELSE b[k - Len(a)]
  BY <1>2, <1>3, ConcatProperties
<1> DEFINE j == a \o b
<1>5. /\ j \in Seq(S) /\ Len(j) = Len(a) + Len(b)
      /\ \A k \in 1 .. Len(a) + Len(b) : j[k] = IF k <= Len(a) THEN a[k] ELSE b[k - Len(a)]
  BY <1>4
<1>6. RemoveAt(s, i) = j BY DEF RemoveAt, a, b
<1> HIDE DEF j
<1>7. DOMAIN j = 1 .. Len(s) - 1 BY <1>1, <1>2, <1>3, <1>5, LenProperties
<1>8. ASSUME NEW k \in 1 .. Len(s) - 1
      PROVE  /\ j[k] = s[IF k < i THEN k ELSE k + 1]
             /\ \E n \in DOMAIN s : j[k] = s[n]
  <2>1. CASE k <= i - 1
    <3>1. j[k] = s[k] /\ k < i BY <2>1, <1>1, <1>2, <1>3, <1>5
    <3>2. k \in DOMAIN s BY <1>1
    <3> QED BY <3>1, <3>2
  <2>2. CASE k > i - 1
    <3>1. k - Len(a) \in 1 .. Len(s) - i /\ i + (k - Len(a)) = k + 1
      BY <2>2, <1>1, <1>2
    <3>2. j[k] = b[k - Len(a)] BY <2>2, <1>1, <1>2, <1>3, <1>5
    <3>3. j[k] = s[k + 1] BY <3>1, <3>2, <1>3
    <3>4. k + 1 \in DOMAIN s /\ ~(k < i) BY <2>2, <1>1
    <3> QED BY <3>3, <3>4
  <2> QED BY <2>1, <2>2, <1>1
<1>9. ToSet(j) \subseteq ToSet(s) BY <1>7, <1>8 DEF ToSet
<1> QED BY <1>5, <1>6, <1>7, <1>8, <1>9

----------------------------------------------------------------------------
(* The program and its commands *)

LEMMA ProgramNames ==
  /\ Len(Program) = 24 /\ Len(InstallSteps) = 19
  /\ Program[1] = "partition" /\ Program[2] = "format" /\ Program[3] = "luks"
  /\ Program[4] = "btrfs" /\ Program[5] = "mount" /\ Program[6] = "packages"
  /\ Program[7] = "fstab" /\ Program[8] = "hostname" /\ Program[9] = "locale"
  /\ Program[10] = "timezone" /\ Program[11] = "network" /\ Program[12] = "users"
  /\ Program[13] = "sudo" /\ Program[14] = "groups" /\ Program[15] = "identity"
  /\ Program[16] = "initramfs" /\ Program[17] = "services"
  /\ Program[18] = "firstboot config" /\ Program[19] = "unmount"
  /\ Program[20] = "remount" /\ Program[21] = "boot entry" /\ Program[22] = "release"
  /\ Program[23] = "health" /\ Program[24] = "first boot"
<1> DEFINE N == {"partition", "format", "luks", "btrfs", "mount", "packages", "fstab",
                 "hostname", "locale", "timezone", "network", "users", "sudo", "groups",
                 "identity", "initramfs", "services", "firstboot config", "unmount",
                 "remount", "boot entry", "release", "health", "first boot"}
<1>1. InstallSteps \in Seq(N) /\ Len(InstallSteps) = 19 BY DEF InstallSteps
<1>2. LaterSteps \in Seq(N) /\ Len(LaterSteps) = 5 BY DEF LaterSteps
<1> HIDE DEF N
<1>3. /\ Len(Program) = Len(InstallSteps) + Len(LaterSteps)
      /\ \A k \in 1 .. Len(InstallSteps) + Len(LaterSteps) :
           Program[k] = IF k <= Len(InstallSteps) THEN InstallSteps[k]
                        ELSE LaterSteps[k - Len(InstallSteps)]
  BY <1>1, <1>2, ConcatProperties DEF Program
<1>4. Len(Program) = 24 /\ \A k \in 1 .. 19 : Program[k] = InstallSteps[k]
  BY <1>1, <1>2, <1>3
<1>5. /\ Program[20] = LaterSteps[1] /\ Program[21] = LaterSteps[2]
      /\ Program[22] = LaterSteps[3] /\ Program[23] = LaterSteps[4]
      /\ Program[24] = LaterSteps[5]
  BY <1>1, <1>2, <1>3
<1>6. /\ LaterSteps[1] = "remount" /\ LaterSteps[2] = "boot entry"
      /\ LaterSteps[3] = "release" /\ LaterSteps[4] = "health"
      /\ LaterSteps[5] = "first boot"
  BY DEF LaterSteps
<1>7. /\ InstallSteps[1] = "partition" /\ InstallSteps[2] = "format"
      /\ InstallSteps[3] = "luks" /\ InstallSteps[4] = "btrfs"
      /\ InstallSteps[5] = "mount" /\ InstallSteps[6] = "packages"
      /\ InstallSteps[7] = "fstab" /\ InstallSteps[8] = "hostname"
      /\ InstallSteps[9] = "locale" /\ InstallSteps[10] = "timezone"
      /\ InstallSteps[11] = "network" /\ InstallSteps[12] = "users"
      /\ InstallSteps[13] = "sudo" /\ InstallSteps[14] = "groups"
      /\ InstallSteps[15] = "identity" /\ InstallSteps[16] = "initramfs"
      /\ InstallSteps[17] = "services" /\ InstallSteps[18] = "firstboot config"
      /\ InstallSteps[19] = "unmount"
  BY DEF InstallSteps
<1>8. /\ Program[1] = "partition" /\ Program[2] = "format"
      /\ Program[3] = "luks" /\ Program[4] = "btrfs"
      /\ Program[5] = "mount"
  <2>1. /\ Program[1] = InstallSteps[1] /\ Program[2] = InstallSteps[2]
        /\ Program[3] = InstallSteps[3] /\ Program[4] = InstallSteps[4]
        /\ Program[5] = InstallSteps[5]
    BY <1>4
  <2> QED BY <2>1, <1>7, Zenon
<1>9. /\ Program[6] = "packages" /\ Program[7] = "fstab"
      /\ Program[8] = "hostname" /\ Program[9] = "locale"
      /\ Program[10] = "timezone"
  <2>1. /\ Program[6] = InstallSteps[6] /\ Program[7] = InstallSteps[7]
        /\ Program[8] = InstallSteps[8] /\ Program[9] = InstallSteps[9]
        /\ Program[10] = InstallSteps[10]
    BY <1>4
  <2> QED BY <2>1, <1>7, Zenon
<1>10. /\ Program[11] = "network" /\ Program[12] = "users"
      /\ Program[13] = "sudo" /\ Program[14] = "groups"
      /\ Program[15] = "identity"
  <2>1. /\ Program[11] = InstallSteps[11] /\ Program[12] = InstallSteps[12]
        /\ Program[13] = InstallSteps[13] /\ Program[14] = InstallSteps[14]
        /\ Program[15] = InstallSteps[15]
    BY <1>4
  <2> QED BY <2>1, <1>7, Zenon
<1>11. /\ Program[16] = "initramfs" /\ Program[17] = "services"
      /\ Program[18] = "firstboot config" /\ Program[19] = "unmount"
  <2>1. /\ Program[16] = InstallSteps[16] /\ Program[17] = InstallSteps[17]
        /\ Program[18] = InstallSteps[18] /\ Program[19] = InstallSteps[19]
    BY <1>4
  <2> QED BY <2>1, <1>7, Zenon
<1>12. /\ Program[20] = "remount" /\ Program[21] = "boot entry"
       /\ Program[22] = "release" /\ Program[23] = "health"
       /\ Program[24] = "first boot"
  BY <1>5, <1>6, Zenon
<1> QED BY <1>1, <1>4, <1>8, <1>9, <1>10, <1>11, <1>12

LEMMA StepCommands ==
  ASSUME NEW s
  PROVE  /\ CommandsOf(Program[1], s) = PartitionCommands(s)
         /\ CommandsOf(Program[2], s) = FormatCommands(s)
         /\ CommandsOf(Program[3], s) = LuksCommands(s)
         /\ CommandsOf(Program[4], s) = BtrfsCommands(s)
         /\ CommandsOf(Program[5], s) = MountCommands(s)
         /\ CommandsOf(Program[6], s) = PackagesCommands(s)
         /\ CommandsOf(Program[7], s) = FstabCommands(s)
         /\ CommandsOf(Program[8], s) = HostnameCommands(s)
         /\ CommandsOf(Program[9], s) = LocaleCommands(s)
         /\ CommandsOf(Program[10], s) = TimezoneCommands(s)
         /\ CommandsOf(Program[11], s) = NetworkCommands(s)
         /\ CommandsOf(Program[12], s) = UsersCommands(s)
         /\ CommandsOf(Program[13], s) = SudoCommands(s)
         /\ CommandsOf(Program[14], s) = GroupsCommands(s)
         /\ CommandsOf(Program[15], s) = IdentityCommands(s)
         /\ CommandsOf(Program[16], s) = InitramfsCommands(s)
         /\ CommandsOf(Program[17], s) = ServicesCommands(s)
         /\ CommandsOf(Program[18], s) = FirstbootConfigCommands(s)
         /\ CommandsOf(Program[19], s) = UnmountCommands(s)
         /\ CommandsOf(Program[20], s) = RemountCommands(s)
         /\ CommandsOf(Program[21], s) = BootEntryCommands(s)
         /\ CommandsOf(Program[22], s) = ReleaseCommands(s)
         /\ CommandsOf(Program[23], s) = HealthCommands(s)
         /\ CommandsOf(Program[24], s) = FirstBootCommands(s)
<1>1. CommandsOf(Program[1], s) = PartitionCommands(s)
  <2>1. CommandsOf("partition", s) = PartitionCommands(s) BY DEF CommandsOf
  <2> QED BY <2>1, ProgramNames
<1>2. CommandsOf(Program[2], s) = FormatCommands(s)
  <2>1. CommandsOf("format", s) = FormatCommands(s) BY DEF CommandsOf
  <2> QED BY <2>1, ProgramNames
<1>3. CommandsOf(Program[3], s) = LuksCommands(s)
  <2>1. CommandsOf("luks", s) = LuksCommands(s) BY DEF CommandsOf
  <2> QED BY <2>1, ProgramNames
<1>4. CommandsOf(Program[4], s) = BtrfsCommands(s)
  <2>1. CommandsOf("btrfs", s) = BtrfsCommands(s) BY DEF CommandsOf
  <2> QED BY <2>1, ProgramNames
<1>5. CommandsOf(Program[5], s) = MountCommands(s)
  <2>1. CommandsOf("mount", s) = MountCommands(s) BY DEF CommandsOf
  <2> QED BY <2>1, ProgramNames
<1>6. CommandsOf(Program[6], s) = PackagesCommands(s)
  <2>1. CommandsOf("packages", s) = PackagesCommands(s) BY DEF CommandsOf
  <2> QED BY <2>1, ProgramNames
<1>7. CommandsOf(Program[7], s) = FstabCommands(s)
  <2>1. CommandsOf("fstab", s) = FstabCommands(s) BY DEF CommandsOf
  <2> QED BY <2>1, ProgramNames
<1>8. CommandsOf(Program[8], s) = HostnameCommands(s)
  <2>1. CommandsOf("hostname", s) = HostnameCommands(s) BY DEF CommandsOf
  <2> QED BY <2>1, ProgramNames
<1>9. CommandsOf(Program[9], s) = LocaleCommands(s)
  <2>1. CommandsOf("locale", s) = LocaleCommands(s) BY DEF CommandsOf
  <2> QED BY <2>1, ProgramNames
<1>10. CommandsOf(Program[10], s) = TimezoneCommands(s)
  <2>1. CommandsOf("timezone", s) = TimezoneCommands(s) BY DEF CommandsOf
  <2> QED BY <2>1, ProgramNames
<1>11. CommandsOf(Program[11], s) = NetworkCommands(s)
  <2>1. CommandsOf("network", s) = NetworkCommands(s) BY DEF CommandsOf
  <2> QED BY <2>1, ProgramNames
<1>12. CommandsOf(Program[12], s) = UsersCommands(s)
  <2>1. CommandsOf("users", s) = UsersCommands(s) BY DEF CommandsOf
  <2> QED BY <2>1, ProgramNames
<1>13. CommandsOf(Program[13], s) = SudoCommands(s)
  <2>1. CommandsOf("sudo", s) = SudoCommands(s) BY DEF CommandsOf
  <2> QED BY <2>1, ProgramNames
<1>14. CommandsOf(Program[14], s) = GroupsCommands(s)
  <2>1. CommandsOf("groups", s) = GroupsCommands(s) BY DEF CommandsOf
  <2> QED BY <2>1, ProgramNames
<1>15. CommandsOf(Program[15], s) = IdentityCommands(s)
  <2>1. CommandsOf("identity", s) = IdentityCommands(s) BY DEF CommandsOf
  <2> QED BY <2>1, ProgramNames
<1>16. CommandsOf(Program[16], s) = InitramfsCommands(s)
  <2>1. CommandsOf("initramfs", s) = InitramfsCommands(s) BY DEF CommandsOf
  <2> QED BY <2>1, ProgramNames
<1>17. CommandsOf(Program[17], s) = ServicesCommands(s)
  <2>1. CommandsOf("services", s) = ServicesCommands(s) BY DEF CommandsOf
  <2> QED BY <2>1, ProgramNames
<1>18. CommandsOf(Program[18], s) = FirstbootConfigCommands(s)
  <2>1. CommandsOf("firstboot config", s) = FirstbootConfigCommands(s) BY DEF CommandsOf
  <2> QED BY <2>1, ProgramNames
<1>19. CommandsOf(Program[19], s) = UnmountCommands(s)
  <2>1. CommandsOf("unmount", s) = UnmountCommands(s) BY DEF CommandsOf
  <2> QED BY <2>1, ProgramNames
<1>20. CommandsOf(Program[20], s) = RemountCommands(s)
  <2>1. CommandsOf("remount", s) = RemountCommands(s) BY DEF CommandsOf
  <2> QED BY <2>1, ProgramNames
<1>21. CommandsOf(Program[21], s) = BootEntryCommands(s)
  <2>1. CommandsOf("boot entry", s) = BootEntryCommands(s) BY DEF CommandsOf
  <2> QED BY <2>1, ProgramNames
<1>22. CommandsOf(Program[22], s) = ReleaseCommands(s)
  <2>1. CommandsOf("release", s) = ReleaseCommands(s) BY DEF CommandsOf
  <2> QED BY <2>1, ProgramNames
<1>23. CommandsOf(Program[23], s) = HealthCommands(s)
  <2>1. CommandsOf("health", s) = HealthCommands(s) BY DEF CommandsOf
  <2> QED BY <2>1, ProgramNames
<1>24. CommandsOf(Program[24], s) = FirstBootCommands(s)
  <2>1. CommandsOf("first boot", s) = FirstBootCommands(s) BY DEF CommandsOf
  <2> QED BY <2>1, ProgramNames
<1> QED BY <1>1, <1>2, <1>3, <1>4, <1>5, <1>6, <1>7, <1>8, <1>9, <1>10, <1>11,
           <1>12, <1>13, <1>14, <1>15, <1>16, <1>17, <1>18, <1>19, <1>20,
           <1>21, <1>22, <1>23, <1>24

LEMMA CommandTypes ==
  /\ \A do \in Does \ {"write", "chroot"} : Run(do) \in Commands /\ Try(do) \in Commands
  /\ \A f \in Files :
       Write(f) \in Commands /\ TryWrite(f) \in Commands /\ Chroot(f) \in Commands
<1>1. "" \notin Files BY DEF Files, ConfigFiles
<1>2. "write" \in Does /\ "chroot" \in Does BY DEF Does
<1>3. ASSUME NEW do \in Does \ {"write", "chroot"}
      PROVE  Run(do) \in Commands /\ Try(do) \in Commands
  BY <1>1 DEF Run, Try, Command, Commands
<1>4. ASSUME NEW f \in Files
      PROVE  Write(f) \in Commands /\ TryWrite(f) \in Commands /\ Chroot(f) \in Commands
  BY <1>2 DEF Write, TryWrite, Chroot, Command, Commands
<1> QED BY <1>3, <1>4

\* The commands that bring something to a file are none of the others.
LEMMA OtherCommands ==
  /\ \A do \in {"zap", "new partitions", "mkfs efi", "mkfs boot", "luksFormat", "luksOpen",
                "mkfs root", "create subvolumes", "mount top", "mount root",
                "mount subvolumes", "mount efi", "mount boot", "umount below", "umount",
                "luksClose", "pacstrap", "health check"} :
       do \in Does \ {"write", "chroot"}
  /\ \A f \in {"efi", "boot", "timezone", "network", "accounts", "initramfs", "services",
               "firstboot enabled", "loader", "entries", "grub", "grub defaults", "grub.cfg",
               "firstboot service", "fstab", "hostname", "locale", "sudoers", "limits",
               "identity", "first-boot.json"} :
       f \in Files
BY DEF Does, Files, ConfigFiles

LEMMA ShortSequences ==
  ASSUME NEW S
  PROVE  /\ <<>> \in Seq(S)
         /\ \A a \in S : <<a>> \in Seq(S)
         /\ \A a, b \in S : <<a, b>> \in Seq(S)
         /\ \A a, b, c, d \in S : <<a, b, c, d>> \in Seq(S)
OBVIOUS

LEMMA DiskStepsTyped ==
  ASSUME NEW s
  PROVE  /\ PartitionCommands(s) \in Seq(Commands) /\ FormatCommands(s) \in Seq(Commands)
         /\ LuksCommands(s) \in Seq(Commands) /\ BtrfsCommands(s) \in Seq(Commands)
         /\ MountCommands(s) \in Seq(Commands)
<1>1. PartitionCommands(s) \in Seq(Commands) /\ FormatCommands(s) \in Seq(Commands)
  <2>1. /\ Run("zap") \in Commands /\ Run("new partitions") \in Commands
        /\ Run("mkfs efi") \in Commands /\ Run("mkfs boot") \in Commands
    BY CommandTypes, OtherCommands
  <2>2. /\ <<>> \in Seq(Commands)
        /\ <<Run("zap"), Run("new partitions")>> \in Seq(Commands)
        /\ <<Run("mkfs efi"), Run("mkfs boot")>> \in Seq(Commands)
        /\ <<Run("mkfs boot")>> \in Seq(Commands)
    BY <2>1, ShortSequences, Zenon
  <2> QED BY <2>2, Zenon DEF PartitionCommands, FormatCommands, OnDisk
<1>2. LuksCommands(s) \in Seq(Commands) /\ BtrfsCommands(s) \in Seq(Commands)
  <2>1. /\ Run("luksFormat") \in Commands /\ Run("luksOpen") \in Commands
        /\ Run("mkfs root") \in Commands /\ Run("mount top") \in Commands
        /\ Run("create subvolumes") \in Commands /\ Run("umount") \in Commands
    BY CommandTypes, OtherCommands
  <2>2. <<>> \in Seq(Commands) /\ <<Run("luksFormat"), Run("luksOpen")>> \in Seq(Commands)
    BY <2>1, ShortSequences, Zenon
  <2>3. <<Run("mkfs root"), Run("mount top"), Run("create subvolumes"), Run("umount")>>
          \in Seq(Commands)
    BY <2>1, ShortSequences, Zenon
  <2> QED BY <2>2, <2>3, Zenon DEF LuksCommands, BtrfsCommands, OnDisk
<1>3. MountCommands(s) \in Seq(Commands)
  <2>1. /\ Run("mount root") \in Commands /\ Run("mount subvolumes") \in Commands
        /\ Run("mount efi") \in Commands /\ Run("mount boot") \in Commands
        /\ Write("efi") \in Commands /\ Write("boot") \in Commands
    BY CommandTypes, OtherCommands
  <2> DEFINE a == <<Run("mount root"), Run("mount subvolumes")>>
             b == OnlyLive(s, <<Write("efi")>>)
             c == <<Run("mount efi")>>
             d == OnlyLive(s, <<Write("boot")>>)
             e == <<Run("mount boot")>>
             f == IF efi THEN b \o c ELSE <<>>
  <2>2. a \in Seq(Commands) /\ c \in Seq(Commands) /\ e \in Seq(Commands)
    BY <2>1, ShortSequences, Zenon
  <2>3. b \in Seq(Commands) /\ d \in Seq(Commands)
    BY <2>1, ShortSequences, Zenon DEF OnlyLive
  <2>4. MountCommands(s) = OnDisk(s, a \o f \o d \o e) BY DEF MountCommands
  <2> HIDE DEF a, b, c, d, e
  <2>5. b \o c \in Seq(Commands) BY <2>2, <2>3, ConcatProperties
  <2>6. f \in Seq(Commands) BY <2>5, ShortSequences, Zenon
  <2> HIDE DEF f
  <2>7. a \o f \in Seq(Commands) BY <2>2, <2>6, ConcatProperties
  <2>8. a \o f \o d \in Seq(Commands) BY <2>3, <2>7, ConcatProperties
  <2>9. a \o f \o d \o e \in Seq(Commands) BY <2>2, <2>8, ConcatProperties
  <2> QED BY <2>4, <2>9, ShortSequences, Zenon DEF OnDisk
<1> QED BY <1>1, <1>2, <1>3

LEMMA FileStepsTyped ==
  ASSUME NEW s
  PROVE  /\ PackagesCommands(s) \in Seq(Commands) /\ FstabCommands(s) \in Seq(Commands)
         /\ HostnameCommands(s) \in Seq(Commands) /\ LocaleCommands(s) \in Seq(Commands)
         /\ TimezoneCommands(s) \in Seq(Commands) /\ NetworkCommands(s) \in Seq(Commands)
         /\ UsersCommands(s) \in Seq(Commands) /\ SudoCommands(s) \in Seq(Commands)
         /\ GroupsCommands(s) \in Seq(Commands) /\ IdentityCommands(s) \in Seq(Commands)
         /\ InitramfsCommands(s) \in Seq(Commands) /\ ServicesCommands(s) \in Seq(Commands)
         /\ FirstbootConfigCommands(s) \in Seq(Commands)
<1>1. /\ Run("pacstrap") \in Commands /\ Write("fstab") \in Commands
      /\ Write("hostname") \in Commands /\ Write("locale") \in Commands
      /\ TryWrite("timezone") \in Commands /\ Write("network") \in Commands
  BY CommandTypes, OtherCommands
<1>2. /\ PackagesCommands(s) \in Seq(Commands) /\ FstabCommands(s) \in Seq(Commands)
      /\ HostnameCommands(s) \in Seq(Commands) /\ LocaleCommands(s) \in Seq(Commands)
      /\ TimezoneCommands(s) \in Seq(Commands) /\ NetworkCommands(s) \in Seq(Commands)
  BY <1>1, ShortSequences, Zenon DEF PackagesCommands, FstabCommands,
     HostnameCommands, LocaleCommands, TimezoneCommands, NetworkCommands, OnlyLive
<1>3. /\ Chroot("accounts") \in Commands /\ Write("sudoers") \in Commands
      /\ Write("limits") \in Commands /\ Write("identity") \in Commands
      /\ Chroot("initramfs") \in Commands /\ Chroot("services") \in Commands
      /\ Chroot("firstboot enabled") \in Commands /\ Write("first-boot.json") \in Commands
  BY CommandTypes, OtherCommands
<1>4. /\ UsersCommands(s) \in Seq(Commands) /\ SudoCommands(s) \in Seq(Commands)
      /\ GroupsCommands(s) \in Seq(Commands) /\ IdentityCommands(s) \in Seq(Commands)
      /\ InitramfsCommands(s) \in Seq(Commands) /\ ServicesCommands(s) \in Seq(Commands)
      /\ FirstbootConfigCommands(s) \in Seq(Commands)
  BY <1>3, ShortSequences, Zenon DEF UsersCommands, SudoCommands, GroupsCommands,
     IdentityCommands, InitramfsCommands, ServicesCommands, FirstbootConfigCommands, OnlyLive
<1> QED BY <1>2, <1>4

LEMMA LastStepsTyped ==
  ASSUME NEW s
  PROVE  /\ UnmountCommands(s) \in Seq(Commands) /\ RemountCommands(s) \in Seq(Commands)
         /\ BootEntryCommands(s) \in Seq(Commands) /\ ReleaseCommands(s) \in Seq(Commands)
         /\ HealthCommands(s) \in Seq(Commands) /\ FirstBootCommands(s) \in Seq(Commands)
<1>1. /\ Try("umount below") \in Commands /\ Try("umount") \in Commands
      /\ Try("luksClose") \in Commands /\ Try("mount root") \in Commands
      /\ Try("mount efi") \in Commands /\ Try("mount boot") \in Commands
      /\ Run("health check") \in Commands
  BY CommandTypes, OtherCommands
<1>2. /\ Write("efi") \in Commands /\ TryWrite("entries") \in Commands
      /\ Write("grub defaults") \in Commands /\ Chroot("grub.cfg") \in Commands
      /\ Chroot("loader") \in Commands /\ Chroot("grub") \in Commands
      /\ TryWrite("firstboot service") \in Commands
  BY CommandTypes, OtherCommands
<1>3. CloseCommands(s) \in Seq(Commands)
  BY <1>1, ShortSequences, Zenon DEF CloseCommands
<1>4. UnmountCommands(s) \in Seq(Commands)
  <2>1. <<Try("umount below"), Try("umount")>> \in Seq(Commands)
    BY <1>1, ShortSequences, Zenon
  <2>2. <<Try("umount below"), Try("umount")>> \o CloseCommands(s) \in Seq(Commands)
    BY <2>1, <1>3, ConcatProperties
  <2> QED BY <2>2, ShortSequences, Zenon DEF UnmountCommands, OnlyLive, OnDisk
<1>5. ReleaseCommands(s) \in Seq(Commands)
  <2>1. <<Try("umount")>> \in Seq(Commands) BY <1>1, ShortSequences, Zenon
  <2>2. <<Try("umount")>> \o CloseCommands(s) \in Seq(Commands)
    BY <2>1, <1>3, ConcatProperties
  <2> QED BY <2>2, ShortSequences, Zenon DEF ReleaseCommands, OnlyLive, OnDisk
<1>6. RemountCommands(s) \in Seq(Commands)
  <2> DEFINE a == <<Try("mount root")>>
             b == IF efi THEN <<Try("mount efi")>> ELSE <<>>
             c == <<Try("mount boot")>>
  <2>1. a \in Seq(Commands) /\ b \in Seq(Commands) /\ c \in Seq(Commands)
    BY <1>1, ShortSequences, Zenon
  <2>2. RemountCommands(s) =
          IF IsMounted THEN <<>> ELSE OnlyLive(s, OnDisk(s, a \o b \o c))
    BY DEF RemountCommands
  <2> HIDE DEF a, b, c
  <2>3. a \o b \in Seq(Commands) BY <2>1, ConcatProperties
  <2>4. a \o b \o c \in Seq(Commands) BY <2>1, <2>3, ConcatProperties
  <2> QED BY <2>2, <2>4, ShortSequences, Zenon DEF OnlyLive, OnDisk
<1>7. BootEntryCommands(s) \in Seq(Commands)
  <2>1. /\ <<Chroot("loader")>> \in Seq(Commands) /\ <<Chroot("grub")>> \in Seq(Commands)
        /\ <<Chroot("grub.cfg")>> \in Seq(Commands)
    BY <1>2, ShortSequences, Zenon
  <2>2. /\ OnlyLive(s, <<Write("efi"), TryWrite("entries")>>) \in Seq(Commands)
        /\ OnlyLive(s, <<Write("grub defaults")>>) \in Seq(Commands)
    BY <1>2, ShortSequences, Zenon DEF OnlyLive
  <2>3. SystemdBootCommands(s) \in Seq(Commands)
    BY <2>1, <2>2, ConcatProperties DEF SystemdBootCommands
  <2>4. <<Chroot("grub")>> \o OnlyLive(s, <<Write("grub defaults")>>) \in Seq(Commands)
    BY <2>1, <2>2, ConcatProperties
  <2>5. GrubCommands(s) \in Seq(Commands) BY <2>1, <2>4, ConcatProperties DEF GrubCommands
  <2> QED BY <2>3, <2>5, Zenon DEF BootEntryCommands
<1>8. HealthCommands(s) \in Seq(Commands) /\ FirstBootCommands(s) \in Seq(Commands)
  BY <1>1, <1>2, ShortSequences, Zenon DEF HealthCommands, FirstBootCommands, OnlyLive
<1> QED BY <1>4, <1>5, <1>6, <1>7, <1>8

LEMMA CommandsTyped ==
  ASSUME NEW s, NEW k \in 1 .. 24 PROVE CommandsOf(Program[k], s) \in Seq(Commands)
<1>1. CASE k \in 1 .. 5
  <2>1. k = 1 \/ k = 2 \/ k = 3 \/ k = 4 \/ k = 5 BY <1>1
  <2>2. CASE k = 1 BY <2>2, StepCommands, DiskStepsTyped, Zenon
  <2>3. CASE k = 2 BY <2>3, StepCommands, DiskStepsTyped, Zenon
  <2>4. CASE k = 3 BY <2>4, StepCommands, DiskStepsTyped, Zenon
  <2>5. CASE k = 4 BY <2>5, StepCommands, DiskStepsTyped, Zenon
  <2>6. CASE k = 5 BY <2>6, StepCommands, DiskStepsTyped, Zenon
  <2> QED BY <2>1, <2>2, <2>3, <2>4, <2>5, <2>6
<1>2. CASE k \in 6 .. 12
  <2>1. k = 6 \/ k = 7 \/ k = 8 \/ k = 9 \/ k = 10 \/ k = 11 \/ k = 12 BY <1>2
  <2>2. CASE k = 6 BY <2>2, StepCommands, FileStepsTyped, Zenon
  <2>3. CASE k = 7 BY <2>3, StepCommands, FileStepsTyped, Zenon
  <2>4. CASE k = 8 BY <2>4, StepCommands, FileStepsTyped, Zenon
  <2>5. CASE k = 9 BY <2>5, StepCommands, FileStepsTyped, Zenon
  <2>6. CASE k = 10 BY <2>6, StepCommands, FileStepsTyped, Zenon
  <2>7. CASE k = 11 BY <2>7, StepCommands, FileStepsTyped, Zenon
  <2>8. CASE k = 12 BY <2>8, StepCommands, FileStepsTyped, Zenon
  <2> QED BY <2>1, <2>2, <2>3, <2>4, <2>5, <2>6, <2>7, <2>8
<1>3. CASE k \in 13 .. 18
  <2>1. k = 13 \/ k = 14 \/ k = 15 \/ k = 16 \/ k = 17 \/ k = 18 BY <1>3
  <2>2. CASE k = 13 BY <2>2, StepCommands, FileStepsTyped, Zenon
  <2>3. CASE k = 14 BY <2>3, StepCommands, FileStepsTyped, Zenon
  <2>4. CASE k = 15 BY <2>4, StepCommands, FileStepsTyped, Zenon
  <2>5. CASE k = 16 BY <2>5, StepCommands, FileStepsTyped, Zenon
  <2>6. CASE k = 17 BY <2>6, StepCommands, FileStepsTyped, Zenon
  <2>7. CASE k = 18 BY <2>7, StepCommands, FileStepsTyped, Zenon
  <2> QED BY <2>1, <2>2, <2>3, <2>4, <2>5, <2>6, <2>7
<1>4. CASE k \in 19 .. 24
  <2>1. k = 19 \/ k = 20 \/ k = 21 \/ k = 22 \/ k = 23 \/ k = 24 BY <1>4
  <2>2. CASE k = 19 BY <2>2, StepCommands, LastStepsTyped, Zenon
  <2>3. CASE k = 20 BY <2>3, StepCommands, LastStepsTyped, Zenon
  <2>4. CASE k = 21 BY <2>4, StepCommands, LastStepsTyped, Zenon
  <2>5. CASE k = 22 BY <2>5, StepCommands, LastStepsTyped, Zenon
  <2>6. CASE k = 23 BY <2>6, StepCommands, LastStepsTyped, Zenon
  <2>7. CASE k = 24 BY <2>7, StepCommands, LastStepsTyped, Zenon
  <2> QED BY <2>1, <2>2, <2>3, <2>4, <2>5, <2>6, <2>7
<1> QED BY <1>1, <1>2, <1>3, <1>4

----------------------------------------------------------------------------
(* Types *)

\* The live system's directory lies under what has been mounted on it.
LayersOK(m) ==
  /\ m \in Seq(Layer) /\ Len(m) >= 1
  /\ m[1].disk = NoDisk /\ m[1].subvolume = "live"
  /\ \A i \in 2 .. Len(m) : m[i].disk \in Disks /\ m[i].subvolume \in Subvolumes

\* Where a session can be.
Placed ==
  /\ session.step <= 24
  /\ session.stage # "run" => session.queue = <<>>
  /\ session.stage = "ask" => session.step <= 19
  /\ session.stage \in {"questions", "confirm"} =>
       session.step = 0 /\ ~session.typed /\ session.undisturbed

InstallInv == InstallerTypeOK /\ LayersOK(mnt) /\ Placed

LEMMA LiveLayer == LayersOK(<<LiveDirectory>>)
<1>1. LiveDirectory \in Layer BY DEF LiveDirectory, Layer
<1>2. LiveDirectory.disk = NoDisk /\ LiveDirectory.subvolume = "live" BY DEF LiveDirectory
<1> DEFINE m == <<LiveDirectory>>
<1>3. m \in Seq(Layer) /\ Len(m) = 1 /\ m[1] = LiveDirectory BY <1>1
<1> HIDE DEF m
<1>4. LayersOK(m) BY <1>2, <1>3 DEF LayersOK
<1> QED BY <1>4 DEF m

LEMMA LayerPushed ==
  ASSUME NEW m, LayersOK(m),
         NEW l \in Layer, l.disk \in Disks, l.subvolume \in Subvolumes
  PROVE  LayersOK(Append(m, l))
<1>1. m \in Seq(Layer) /\ Len(m) \in Nat /\ Len(m) >= 1 BY LenProperties DEF LayersOK
<1> DEFINE a == Append(m, l)
<1>2. /\ a \in Seq(Layer) /\ Len(a) = Len(m) + 1 /\ a[Len(m) + 1] = l
      /\ \A i \in 1 .. Len(m) : a[i] = m[i]
  BY <1>1, AppendProperties
<1> HIDE DEF a
<1>3. Len(a) >= 1 /\ a[1] = m[1] BY <1>1, <1>2
<1>4. \A i \in 2 .. Len(a) : a[i].disk \in Disks /\ a[i].subvolume \in Subvolumes
  BY <1>1, <1>2 DEF LayersOK
<1>5. LayersOK(a) BY <1>2, <1>3, <1>4 DEF LayersOK
<1> QED BY <1>5 DEF a

LEMMA LayerPopped ==
  ASSUME NEW m, LayersOK(m), Len(m) > 1
  PROVE  LayersOK(SubSeq(m, 1, Len(m) - 1))
<1>1. m \in Seq(Layer) /\ Len(m) \in Nat /\ \A i \in 1 .. Len(m) - 1 : m[i] \in Layer
  BY LenProperties DEF LayersOK
<1> DEFINE a == SubSeq(m, 1, Len(m) - 1)
<1>2. /\ a \in Seq(Layer) /\ Len(a) = Len(m) - 1
      /\ \A i \in 1 .. Len(m) - 1 : a[i] = m[i]
  BY <1>1, SubSeqProperties
<1> HIDE DEF a
<1>3. LayersOK(a) BY <1>1, <1>2 DEF LayersOK
<1> QED BY <1>3 DEF a

LEMMA LayerChanged ==
  ASSUME NEW m, LayersOK(m), NEW l \in Layer,
         l.disk = m[Len(m)].disk, l.subvolume = m[Len(m)].subvolume
  PROVE  LayersOK([m EXCEPT ![Len(m)] = l])
<1>1. m \in Seq(Layer) /\ Len(m) \in Nat /\ Len(m) >= 1 BY LenProperties DEF LayersOK
<1> DEFINE a == [m EXCEPT ![Len(m)] = l]
<1>2. /\ a \in Seq(Layer) /\ Len(a) = Len(m)
      /\ \A i \in 1 .. Len(m) : a[i] = IF i = Len(m) THEN l ELSE m[i]
  BY <1>1, ExceptSeq
<1> HIDE DEF a
<1>3. a[1].disk = m[1].disk /\ a[1].subvolume = m[1].subvolume BY <1>1, <1>2
<1>4. ASSUME NEW i \in 2 .. Len(a)
      PROVE  a[i].disk = m[i].disk /\ a[i].subvolume = m[i].subvolume
  BY <1>1, <1>2
<1>5. LayersOK(a) BY <1>1, <1>2, <1>3, <1>4 DEF LayersOK
<1> QED BY <1>5 DEF a

LEMMA TopFacts ==
  ASSUME LayersOK(mnt)
  PROVE  /\ Len(mnt) \in Nat \ {0} /\ Top = mnt[Len(mnt)] /\ Top \in Layer
         /\ IsMounted => Top.disk \in Disks /\ Top.subvolume \in Subvolumes
         /\ ~IsMounted => Len(mnt) = 1
<1>1. mnt \in Seq(Layer) /\ Len(mnt) \in Nat \ {0} BY LenProperties DEF LayersOK
<1>2. Top = mnt[Len(mnt)] /\ Top \in Layer BY <1>1, ElementOfSeq DEF Top
<1>3. ASSUME IsMounted PROVE Top.disk \in Disks /\ Top.subvolume \in Subvolumes
  <2>3. Len(mnt) > 1 BY <1>3 DEF IsMounted
  <2>4. \A n \in Nat : n > 1 => n \in 2 .. n OBVIOUS
  <2>1. Len(mnt) \in 2 .. Len(mnt) BY <1>1, <2>3, <2>4
  <2>2. mnt[Len(mnt)].disk \in Disks /\ mnt[Len(mnt)].subvolume \in Subvolumes
    BY <2>1 DEF LayersOK
  <2> QED BY <1>2, <2>2
<1>4. ~IsMounted => Len(mnt) = 1
  <2>1. \A n \in Nat \ {0} : ~(n > 1) => n = 1 OBVIOUS
  <2>2. IsMounted <=> Len(mnt) > 1 BY DEF IsMounted
  <2> QED BY <1>1, <2>1, <2>2, Zenon
<1> QED BY <1>1, <1>2, <1>3, <1>4

LEMMA ContentPut ==
  ASSUME NEW c \in [Disks -> Content], NEW d, NEW new, d \in Disks => new \in Content
  PROVE  [c EXCEPT ![d] = new] \in [Disks -> Content]
OBVIOUS

LEMMA ContentChanged ==
  ASSUME NEW r \in Content
  PROVE  /\ \A b \in BOOLEAN : [r EXCEPT !.parts = b] \in Content
         /\ [r EXCEPT !.esp = {"fat"}] \in Content
         /\ [r EXCEPT !.boot = {"ext4"}] \in Content
         /\ [r EXCEPT !.luks = TRUE, !.btrfs = "none", !.files = {}] \in Content
         /\ \A b \in BOOLEAN :
              [r EXCEPT !.luks = b, !.btrfs = "made", !.files = {}] \in Content
         /\ [r EXCEPT !.btrfs = "ready"] \in Content
         /\ \A s \in SUBSET (Subvolumes \X Files), b \in SUBSET {"ext4", "kernel"} :
              [r EXCEPT !.files = s, !.boot = b] \in Content
BY DEF Content

\* A disk to which files are added.
LEMMA ContentFields ==
  ASSUME NEW r \in Content
  PROVE  /\ r.parts \in BOOLEAN /\ r.luks \in BOOLEAN
         /\ r.btrfs \in {"none", "made", "ready"}
         /\ r.esp \in SUBSET {"fat", "loader", "entries", "kernel"}
         /\ r.boot \in SUBSET {"ext4", "kernel"}
         /\ r.files \in SUBSET (Subvolumes \X Files)
BY DEF Content

LEMMA SessionFields ==
  ASSUME NEW s \in Session
  PROVE  /\ s.stage \in Stages /\ s.step \in Nat /\ s.queue \in Seq(Commands)
         /\ s.dry \in BOOLEAN /\ s.disk \in Disks \cup {NoDisk} /\ s.encrypt \in BOOLEAN
         /\ s.typed \in BOOLEAN /\ s.code \in {0, 1, 2, 130} /\ s.undisturbed \in BOOLEAN
         /\ s.fresh \in BOOLEAN /\ s.leftover \in SUBSET Disks
BY DEF Session

\* The head of the queue is taken.
LEMMA ProceedFacts ==
  ASSUME InstallInv, session.stage = "run", session.queue # <<>>,
         session' = [session EXCEPT !.queue = Tail(@)]
  PROVE  /\ session' \in Session /\ Head(session.queue) \in Commands
         /\ session'.queue = Tail(session.queue)
         /\ session'.stage = session.stage /\ session'.step = session.step
         /\ session'.dry = session.dry /\ session'.disk = session.disk
         /\ session'.encrypt = session.encrypt /\ session'.typed = session.typed
         /\ session'.code = session.code /\ session'.undisturbed = session.undisturbed
         /\ session'.fresh = session.fresh /\ session'.leftover = session.leftover
         /\ Placed'
<1>1. session \in Session BY DEF InstallInv, InstallerTypeOK
<1>2. session.queue \in Seq(Commands) BY <1>1, SessionFields
<1>3. Head(session.queue) \in Commands /\ Tail(session.queue) \in Seq(Commands)
  BY <1>2, HeadTailProperties
<1>4. session' \in Session BY <1>1, <1>3 DEF Session
<1>5. /\ session'.queue = Tail(session.queue)
      /\ session'.stage = session.stage /\ session'.step = session.step
      /\ session'.dry = session.dry /\ session'.disk = session.disk
      /\ session'.encrypt = session.encrypt /\ session'.typed = session.typed
      /\ session'.code = session.code /\ session'.undisturbed = session.undisturbed
      /\ session'.fresh = session.fresh /\ session'.leftover = session.leftover
  BY <1>1 DEF Session
<1>6. Placed' BY <1>5 DEF InstallInv, Placed
<1> QED BY <1>3, <1>4, <1>5, <1>6

LEMMA CommandTyped ==
  ASSUME InstallInv, session.stage = "run", session.queue # <<>>, Proceed, Undisturbed,
         content' \in [Disks -> Content], mapper' \in Disks \cup {NoDisk},
         LayersOK(mnt'), bare' \subseteq Files
  PROVE  InstallInv'
<1>1. session' \in Session /\ Placed' BY ProceedFacts DEF Proceed
<1>2. efi' \in BOOLEAN /\ sessions' \in 0 .. MaxMishaps + 1 /\ failures' \in 0 .. MaxMishaps
  BY DEF Undisturbed, InstallInv, InstallerTypeOK
<1>3. mnt' \in Seq(Layer) /\ Len(mnt') >= 1 BY DEF LayersOK
<1>4. InstallerTypeOK' BY <1>1, <1>2, <1>3 DEF InstallerTypeOK
<1> QED BY <1>1, <1>4 DEF InstallInv

LEMMA QueueHead ==
  ASSUME InstallInv, session.queue # <<>>
  PROVE  /\ Head(session.queue) \in Commands /\ Tail(session.queue) \in Seq(Commands)
         /\ session.queue \in Seq(Commands)
<1>1. session.queue \in Seq(Commands)
  BY SessionFields DEF InstallInv, InstallerTypeOK
<1> QED BY <1>1, HeadTailProperties

LEMMA DiskCommandTypes ==
  ASSUME InstallInv, DiskCommand PROVE InstallInv'
<1>1. /\ content \in [Disks -> Content] /\ mapper \in Disks \cup {NoDisk}
      /\ LayersOK(mnt) /\ bare \subseteq Files /\ session \in Session
  BY DEF InstallInv, InstallerTypeOK
<1>2. /\ Disk \in Disks \cup {NoDisk} /\ session.encrypt \in BOOLEAN
      /\ RootDevice \in Disks \cup {NoDisk}
  BY <1>1, SessionFields DEF Disk, RootDevice
<1>3. ASSUME NEW do, Performs(do)
      PROVE  session.stage = "run" /\ session.queue # <<>>
  BY <1>3 DEF Performs
<1>4. ASSUME NEW l \in Layer, l.disk = Top.disk, l.subvolume = Top.subvolume
      PROVE  LayersOK([mnt EXCEPT ![Len(mnt)] = l])
  <2>1. l.disk = mnt[Len(mnt)].disk /\ l.subvolume = mnt[Len(mnt)].subvolume
    BY <1>4, <1>1, TopFacts
  <2> QED BY <2>1, <1>1, LayerChanged
<1>5. Top \in Layer BY <1>1, TopFacts
<1>6. ASSUME NEW subvolume \in Subvolumes, RootDevice # NoDisk, Push(subvolume)
      PROVE  LayersOK(mnt')
  <2> DEFINE l == [disk |-> RootDevice, subvolume |-> subvolume,
                   efi |-> NoDisk, boot |-> NoDisk]
  <2>1. l \in Layer /\ l.disk \in Disks /\ l.subvolume \in Subvolumes
    BY <1>6, <1>2 DEF Layer
  <2>2. mnt' = Append(mnt, l) BY <1>6 DEF Push
  <2> HIDE DEF l
  <2> QED BY <2>1, <2>2, <1>1, LayerPushed
<1>7. CASE Zap
  <2>1. content' \in [Disks -> Content]
    BY <1>7, <1>1, ContentPut, ContentChanged DEF Zap, Put
  <2> QED BY <1>7, <1>1, <1>3, <2>1, CommandTyped DEF Zap
<1>8. CASE NewPartitions
  <2>1. content' \in [Disks -> Content]
    BY <1>8, <1>1, ContentPut, ContentChanged DEF NewPartitions, Put
  <2> QED BY <1>8, <1>1, <1>3, <2>1, CommandTyped DEF NewPartitions
<1>9. CASE MkfsEfi
  <2>1. content' \in [Disks -> Content]
    BY <1>9, <1>1, ContentPut, ContentChanged DEF MkfsEfi, Put
  <2> QED BY <1>9, <1>1, <1>3, <2>1, CommandTyped DEF MkfsEfi
<1>10. CASE MkfsBoot
  <2>1. content' \in [Disks -> Content]
    BY <1>10, <1>1, ContentPut, ContentChanged DEF MkfsBoot, Put
  <2> QED BY <1>10, <1>1, <1>3, <2>1, CommandTyped DEF MkfsBoot
<1>11. CASE LuksFormat
  <2>1. content' \in [Disks -> Content]
    BY <1>11, <1>1, ContentPut, ContentChanged DEF LuksFormat, Put
  <2> QED BY <1>11, <1>1, <1>3, <2>1, CommandTyped DEF LuksFormat
<1>12. CASE LuksOpen
  BY <1>12, <1>1, <1>2, <1>3, CommandTyped DEF LuksOpen
<1>13. CASE MkfsRoot
  <2>1. content' \in [Disks -> Content]
    BY <1>13, <1>1, <1>2, ContentPut, ContentChanged DEF MkfsRoot, Put
  <2> QED BY <1>13, <1>1, <1>3, <2>1, CommandTyped DEF MkfsRoot
<1>14. CASE CreateSubvolumes
  <2>1. content' \in [Disks -> Content]
    BY <1>14, <1>1, ContentPut, ContentChanged DEF CreateSubvolumes, Put
  <2> QED BY <1>14, <1>1, <1>3, <2>1, CommandTyped DEF CreateSubvolumes
<1>15. CASE MountTop
  <2>1. RootDevice # NoDisk BY <1>15 DEF MountTop, Performs, Possible, HasRoot
  <2>2. LayersOK(mnt') BY <1>15, <1>6, <2>1 DEF MountTop, Subvolumes
  <2> QED BY <1>15, <1>1, <1>3, <2>2, CommandTyped DEF MountTop
<1>16. CASE MountRoot
  <2>1. RootDevice # NoDisk BY <1>16 DEF MountRoot, Performs, Possible, HasRoot
  <2>2. LayersOK(mnt') BY <1>16, <1>6, <2>1 DEF MountRoot, Subvolumes
  <2> QED BY <1>16, <1>1, <1>3, <2>2, CommandTyped DEF MountRoot
<1>17. CASE MountSubvolumes
  BY <1>17, <1>1, <1>3, CommandTyped DEF MountSubvolumes
<1>18. CASE MountEfi
  <2>1. [Top EXCEPT !.efi = Disk] \in Layer BY <1>2, <1>5 DEF Layer
  <2>2. /\ [Top EXCEPT !.efi = Disk].disk = Top.disk
        /\ [Top EXCEPT !.efi = Disk].subvolume = Top.subvolume
    BY <1>5 DEF Layer
  <2>3. LayersOK(mnt') BY <1>18, <1>4, <2>1, <2>2 DEF MountEfi, SetTop
  <2> QED BY <1>18, <1>1, <1>3, <2>3, CommandTyped DEF MountEfi
<1>19. CASE MountBoot
  <2>1. [Top EXCEPT !.boot = Disk] \in Layer BY <1>2, <1>5 DEF Layer
  <2>2. /\ [Top EXCEPT !.boot = Disk].disk = Top.disk
        /\ [Top EXCEPT !.boot = Disk].subvolume = Top.subvolume
    BY <1>5 DEF Layer
  <2>3. LayersOK(mnt') BY <1>19, <1>4, <2>1, <2>2 DEF MountBoot, SetTop
  <2> QED BY <1>19, <1>1, <1>3, <2>3, CommandTyped DEF MountBoot
<1>20. CASE UmountBelow
  <2> DEFINE l == [Top EXCEPT !.efi = NoDisk, !.boot = NoDisk]
  <2>1. l \in Layer /\ l.disk = Top.disk /\ l.subvolume = Top.subvolume
    BY <1>5 DEF Layer
  <2>2. mnt' = [mnt EXCEPT ![Len(mnt)] = l] BY <1>20 DEF UmountBelow, SetTop
  <2> HIDE DEF l
  <2>3. LayersOK(mnt') BY <1>4, <2>1, <2>2
  <2> QED BY <1>20, <1>1, <1>3, <2>3, CommandTyped DEF UmountBelow
<1>21. CASE Umount
  <2>1. IsMounted BY <1>21 DEF Umount, Performs, Possible
  <2>2. LayersOK(mnt') BY <1>21, <2>1, <1>1, LayerPopped DEF Umount, IsMounted
  <2> QED BY <1>21, <1>1, <1>3, <2>2, CommandTyped DEF Umount
<1>22. CASE LuksClose
  BY <1>22, <1>1, <1>2, <1>3, CommandTyped DEF LuksClose
<1> QED
  BY <1>7, <1>8, <1>9, <1>10, <1>11, <1>12, <1>13, <1>14, <1>15, <1>16, <1>17, <1>18,
     <1>19, <1>20, <1>21, <1>22 DEF DiskCommand

\* What a file command brings is a file, and it lands where files may be.
LEMMA StoreTypes ==
  ASSUME InstallInv, NEW f \in Files, Store(f)
  PROVE  content' \in [Disks -> Content] /\ bare' \subseteq Files
<1>1. content \in [Disks -> Content] /\ bare \subseteq Files /\ LayersOK(mnt)
  BY DEF InstallInv, InstallerTypeOK
<1>2. CASE f \in {"loader", "entries"} /\ Top.efi # NoDisk
  <2>1. /\ content' = [content EXCEPT ![Top.efi] =
                         [content[Top.efi] EXCEPT !.esp = @ \cup {f}]]
        /\ bare' = bare
    BY <1>2 DEF Store, Put
  <2>2. ASSUME NEW r \in Content PROVE [r EXCEPT !.esp = @ \cup {f}] \in Content
    BY <1>2 DEF Content
  <2> QED BY <1>1, <2>1, <2>2, ContentPut
<1>3. CASE ~(f \in {"loader", "entries"} /\ Top.efi # NoDisk) /\ IsMounted
  <2>1. /\ content' = [content EXCEPT ![Top.disk] =
                         [content[Top.disk] EXCEPT !.files = @ \cup {<<Top.subvolume, f>>}]]
        /\ bare' = bare
    BY <1>3 DEF Store, Put
  <2>2. Top.subvolume \in Subvolumes BY <1>1, <1>3, TopFacts
  <2>3. ASSUME NEW r \in Content
        PROVE  [r EXCEPT !.files = @ \cup {<<Top.subvolume, f>>}] \in Content
    BY <2>2 DEF Content
  <2> QED BY <1>1, <2>1, <2>3, ContentPut
<1>4. CASE ~(f \in {"loader", "entries"} /\ Top.efi # NoDisk) /\ ~IsMounted
  <2>1. bare' = bare \cup {f} /\ content' = content BY <1>4 DEF Store
  <2> QED BY <1>1, <2>1
<1> QED BY <1>2, <1>3, <1>4

\* What pacstrap brings to a disk.
Packages(d) == IF d = Top.disk THEN {<<Top.subvolume, "packages">>} ELSE {}
Kernel(d) == IF d = Top.boot THEN {"kernel"} ELSE {}

LEMMA PacstrapTypes ==
  ASSUME InstallInv, Pacstrap
  PROVE  /\ content' \in [Disks -> Content] /\ bare' \subseteq Files
         /\ \A d \in Disks :
              /\ content'[d].parts = content[d].parts /\ content'[d].luks = content[d].luks
              /\ content'[d].esp = content[d].esp /\ content'[d].btrfs = content[d].btrfs
              /\ content'[d].boot = content[d].boot \cup Kernel(d)
              /\ content'[d].files = content[d].files \cup Packages(d)
<1>1. content \in [Disks -> Content] /\ bare \subseteq Files /\ LayersOK(mnt)
  BY DEF InstallInv, InstallerTypeOK
<1>2. content' = [d \in Disks |-> [content[d] EXCEPT
        !.files = IF d = Top.disk THEN @ \cup {<<Top.subvolume, "packages">>} ELSE @,
        !.boot = IF d = Top.boot THEN @ \cup {"kernel"} ELSE @]]
  BY DEF Pacstrap
<1>3. ASSUME NEW d \in Disks
      PROVE  /\ content'[d] \in Content
             /\ content'[d].parts = content[d].parts /\ content'[d].luks = content[d].luks
             /\ content'[d].esp = content[d].esp /\ content'[d].btrfs = content[d].btrfs
             /\ content'[d].boot = content[d].boot \cup Kernel(d)
             /\ content'[d].files = content[d].files \cup Packages(d)
  <2> DEFINE r == content[d]
             p == <<Top.subvolume, "packages">>
             files == IF d = Top.disk THEN r.files \cup {p} ELSE r.files
             kernel == IF d = Top.boot THEN r.boot \cup {"kernel"} ELSE r.boot
  <2>1. d = Top.disk => p \in Subvolumes \X Files
    <3>1. d = Top.disk => IsMounted
      <4>1. ~IsMounted => Top.disk = NoDisk BY <1>1, TopFacts DEF LayersOK
      <4> QED BY <4>1, InstallerAssumption
    <3>2. "packages" \in Files BY DEF Files
    <3> QED BY <3>1, <3>2, <1>1, TopFacts
  <2>2. content'[d] = [r EXCEPT !.files = files, !.boot = kernel] BY <1>2
  <2>3. /\ r \in Content /\ r.files \in SUBSET (Subvolumes \X Files)
        /\ r.boot \in SUBSET {"ext4", "kernel"}
    BY <1>1, ContentFields
  <2> HIDE DEF r, p
  <2>4. files \in SUBSET (Subvolumes \X Files) /\ kernel \in SUBSET {"ext4", "kernel"}
    BY <2>1, <2>3
  <2>5. kernel = r.boot \cup Kernel(d)
    <3>1. CASE d = Top.boot BY <3>1 DEF Kernel
    <3>2. CASE d # Top.boot
      <4>1. Kernel(d) = {} BY <3>2 DEF Kernel
      <4>2. r.boot \cup {} = r.boot BY Zenon
      <4> QED BY <3>2, <4>1, <4>2
    <3> QED BY <3>1, <3>2
  <2>6. files = r.files \cup Packages(d)
    <3>1. CASE d = Top.disk BY <3>1 DEF Packages, p
    <3>2. CASE d # Top.disk
      <4>1. Packages(d) = {} BY <3>2 DEF Packages
      <4>2. r.files \cup {} = r.files BY Zenon
      <4> QED BY <3>2, <4>1, <4>2
    <3> QED BY <3>1, <3>2
  <2> HIDE DEF files, kernel
  <2>7. /\ content'[d] \in Content
        /\ content'[d].parts = r.parts /\ content'[d].luks = r.luks
        /\ content'[d].esp = r.esp /\ content'[d].btrfs = r.btrfs
        /\ content'[d].boot = kernel /\ content'[d].files = files
    BY <2>2, <2>3, <2>4 DEF Content
  <2> QED BY <2>5, <2>6, <2>7 DEF r
<1>4. bare' \subseteq Files BY <1>1 DEF Pacstrap, Files
<1>5. content' \in [Disks -> Content] BY <1>2, <1>3
<1> QED BY <1>3, <1>4, <1>5

LEMMA FileCommandTypes ==
  ASSUME InstallInv, FileCommand PROVE InstallInv'
<1>1. /\ mapper \in Disks \cup {NoDisk} /\ LayersOK(mnt) BY DEF InstallInv, InstallerTypeOK
<1>2. CASE WriteFile
  <2>1. /\ session.stage = "run" /\ session.queue # <<>>
        /\ Head(session.queue).do \in {"write", "chroot"}
    BY <1>2 DEF WriteFile, Performs
  <2>2. Head(session.queue).what \in Files BY <2>1, QueueHead DEF Commands
  <2>3. content' \in [Disks -> Content] /\ bare' \subseteq Files
    BY <1>2, <2>2, StoreTypes DEF WriteFile
  <2> QED BY <1>1, <1>2, <2>1, <2>3, CommandTyped DEF WriteFile
<1>3. CASE Pacstrap
  <2>1. session.stage = "run" /\ session.queue # <<>> BY <1>3 DEF Pacstrap, Performs
  <2>2. content' \in [Disks -> Content] /\ bare' \subseteq Files
    BY <1>3, PacstrapTypes
  <2> QED BY <1>1, <1>3, <2>1, <2>2, CommandTyped DEF Pacstrap
<1>4. CASE NoPackageManager
  <2>1. session.stage = "run" /\ session.queue # <<>>
    BY <1>4 DEF NoPackageManager, Performs
  <2>2. session' = [session EXCEPT !.queue = Tail(@), !.undisturbed = FALSE]
        /\ failures' = failures + 1 /\ Mishaps < MaxMishaps /\ UNCHANGED <<machine, sessions>>
    BY <1>4 DEF NoPackageManager
  <2>3. session \in Session /\ Tail(session.queue) \in Seq(Commands)
    BY <2>1, QueueHead DEF InstallInv, InstallerTypeOK
  <2>4. /\ session' \in Session /\ session'.stage = "run" /\ session'.step = session.step
    BY <2>1, <2>2, <2>3 DEF Session
  <2>5. Placed' BY <2>4 DEF Placed, InstallInv
  <2>6. failures' \in 0 .. MaxMishaps
    BY <2>2, InstallerAssumption DEF Mishaps, InstallInv, InstallerTypeOK
  <2> QED BY <2>2, <2>4, <2>5, <2>6 DEF InstallInv, InstallerTypeOK, machine
<1> QED BY <1>2, <1>3, <1>4 DEF FileCommand

\* A command of its own fails or not.
LEMMA FailureCounted ==
  ASSUME InstallInv, Fails
  PROVE  /\ failures' \in 0 .. MaxMishaps /\ sessions' = sessions /\ UNCHANGED machine
         /\ session.stage = "run" /\ session.queue # <<>>
<1>1. /\ failures \in 0 .. MaxMishaps /\ sessions \in 0 .. MaxMishaps + 1 /\ MaxMishaps \in Nat
  BY InstallerAssumption DEF InstallInv, InstallerTypeOK
<1>2. \/ failures' = failures
      \/ Mishaps < MaxMishaps /\ failures' = failures + 1
  BY DEF Fails
<1>3. failures' \in 0 .. MaxMishaps BY <1>1, <1>2 DEF Mishaps
<1> QED BY <1>3 DEF Fails

LEMMA SessionTypes ==
  ASSUME InstallInv,
         \/ \E dry, auto \in BOOLEAN : Start(dry, auto)
         \/ \E d \in Disks \cup {NoDisk}, encrypt \in BOOLEAN : Answer(d, encrypt)
         \/ UnknownProfile \/ Confirm \/ Abort
         \/ DryCommand \/ HealthCheck \/ FailureIgnored \/ FailureRaised
         \/ BeginStep \/ Finish \/ Continue \/ GiveUp \/ Interrupt
  PROVE  InstallInv'
<1>1. /\ session \in Session /\ sessions \in 0 .. MaxMishaps + 1
      /\ failures \in 0 .. MaxMishaps /\ MaxMishaps \in Nat /\ Placed /\ LayersOK(mnt)
  BY InstallerAssumption DEF InstallInv, InstallerTypeOK
<1>2. /\ session.step \in Nat /\ session.queue \in Seq(Commands) /\ <<>> \in Seq(Commands)
      /\ Disk \in Disks \cup {NoDisk} /\ session.stage \in Stages
      /\ session.dry \in BOOLEAN /\ session.typed \in BOOLEAN
  BY <1>1, SessionFields, ShortSequences DEF Disk
<1>3. ASSUME session' \in Session, Placed', sessions' \in 0 .. MaxMishaps + 1,
             failures' \in 0 .. MaxMishaps, UNCHANGED machine
      PROVE  InstallInv'
  <2>1. InstallerTypeOK' BY <1>3 DEF machine, InstallInv, InstallerTypeOK
  <2>2. LayersOK(mnt)' BY <1>1, <1>3 DEF machine, LayersOK
  <2> QED BY <2>1, <2>2, <1>3 DEF InstallInv
<1>4. ASSUME NEW dry \in BOOLEAN, NEW auto \in BOOLEAN, Start(dry, auto) PROVE InstallInv'
  <2>1. OpenDisks \in SUBSET Disks
    <3>1. /\ mapper \in Disks \cup {NoDisk}
          /\ \A i \in DOMAIN mnt : mnt[i] \in Layer
      BY <1>1 DEF InstallInv, InstallerTypeOK, LayersOK
    <3> QED BY <3>1 DEF OpenDisks, MountedDisks, Layer
  <2>2. /\ session' = [NoSession EXCEPT
             !.stage = IF auto THEN "run" ELSE "questions",
             !.dry = dry \/ auto, !.encrypt = ~auto,
             !.fresh = (OpenDisks = {} /\ bare = {}), !.leftover = OpenDisks]
        /\ sessions' = sessions + 1 /\ UNCHANGED <<machine, failures>>
        /\ (sessions > 0 => Mishaps < MaxMishaps)
    BY <1>4 DEF Start
  <2>3. session' \in Session BY <2>1, <2>2, <1>2 DEF Session, NoSession, Stages
  <2>4. /\ session'.stage \in {"run", "questions"} /\ session'.step = 0
        /\ session'.queue = <<>> /\ session'.typed = FALSE /\ session'.undisturbed = TRUE
    BY <2>2 DEF NoSession
  <2>5. Placed' BY <2>4 DEF Placed
  <2>6. sessions' \in 0 .. MaxMishaps + 1 BY <2>2, <1>1 DEF Mishaps
  <2> QED BY <1>1, <1>3, <2>2, <2>3, <2>5, <2>6
<1>5. ASSUME NEW d \in Disks \cup {NoDisk}, NEW encrypt \in BOOLEAN, Answer(d, encrypt)
      PROVE  InstallInv'
  <2>1. /\ session' = [session EXCEPT !.stage = "confirm", !.disk = d, !.encrypt = encrypt]
        /\ session.stage = "questions" /\ UNCHANGED <<machine, sessions, failures>>
    BY <1>5 DEF Answer
  <2>2. session' \in Session BY <2>1, <1>1 DEF Session, Stages
  <2>3. /\ session'.stage = "confirm" /\ session'.step = session.step
        /\ session'.queue = session.queue /\ session'.typed = session.typed
        /\ session'.undisturbed = session.undisturbed
    BY <2>1, <1>1 DEF Session
  <2>4. Placed' BY <2>1, <2>3, <1>1 DEF Placed
  <2> QED BY <1>1, <1>3, <2>1, <2>2, <2>4
<1>6. CASE UnknownProfile
  <2>1. /\ session' = [session EXCEPT !.stage = "exited", !.code = 1]
        /\ session.stage = "questions" /\ UNCHANGED <<machine, sessions, failures>>
    BY <1>6 DEF UnknownProfile
  <2>2. session' \in Session BY <2>1, <1>1 DEF Session, Stages
  <2>3. /\ session'.stage = "exited" /\ session'.step = session.step
        /\ session'.queue = session.queue
    BY <2>1, <1>1 DEF Session
  <2>4. Placed' BY <2>1, <2>3, <1>1 DEF Placed
  <2> QED BY <1>1, <1>3, <2>1, <2>2, <2>4
<1>7. CASE Confirm
  <2> DEFINE typed == Disk # NoDisk /\ ~session.dry
  <2>0. typed \in BOOLEAN OBVIOUS
  <2>1. /\ session' = [session EXCEPT !.stage = "run", !.typed = typed]
        /\ session.stage = "confirm" /\ UNCHANGED <<machine, sessions, failures>>
    BY <1>7 DEF Confirm
  <2> HIDE DEF typed
  <2>2. session' \in Session BY <2>0, <2>1, <1>1 DEF Session, Stages
  <2>3. /\ session'.stage = "run" /\ session'.step = session.step
    BY <2>1, <1>1 DEF Session
  <2>4. Placed' BY <2>1, <2>3, <1>1 DEF Placed
  <2> QED BY <1>1, <1>3, <2>1, <2>2, <2>4
<1>8. CASE Abort
  <2>1. /\ session' = [session EXCEPT !.stage = "exited", !.code = 0]
        /\ session.stage = "confirm" /\ UNCHANGED <<machine, sessions, failures>>
    BY <1>8 DEF Abort
  <2>2. session' \in Session BY <2>1, <1>1 DEF Session, Stages
  <2>3. /\ session'.stage = "exited" /\ session'.step = session.step
        /\ session'.queue = session.queue
    BY <2>1, <1>1 DEF Session
  <2>4. Placed' BY <2>1, <2>3, <1>1 DEF Placed
  <2> QED BY <1>1, <1>3, <2>1, <2>2, <2>4
<1>9. CASE DryCommand
  <2>1. /\ session.stage = "run" /\ session.queue # <<>>
        /\ session' = [session EXCEPT !.queue = Tail(@)]
        /\ UNCHANGED <<machine, sessions, failures>>
    BY <1>9 DEF DryCommand, Proceed
  <2>2. session' \in Session /\ Placed' BY <2>1, ProceedFacts
  <2> QED BY <1>1, <1>3, <2>1, <2>2
<1>10. CASE HealthCheck
  <2>1. /\ session.stage = "run" /\ session.queue # <<>>
        /\ session' = [session EXCEPT !.queue = Tail(@),
                                      !.code = IF HealthFailures THEN 2 ELSE 0]
        /\ UNCHANGED <<machine, sessions, failures>>
    BY <1>10 DEF HealthCheck
  <2>2. Tail(session.queue) \in Seq(Commands) BY <2>1, QueueHead
  <2>3. /\ session' \in Session /\ session'.stage = "run" /\ session'.step = session.step
    BY <2>1, <2>2, <1>1 DEF Session
  <2>4. Placed' BY <2>3, <1>1 DEF Placed
  <2> QED BY <1>1, <1>3, <2>1, <2>3, <2>4
<1>11. CASE FailureIgnored
  <2>1. /\ session.stage = "run" /\ session.queue # <<>> /\ UNCHANGED machine
        /\ failures' \in 0 .. MaxMishaps /\ sessions' = sessions
    BY <1>11, FailureCounted DEF FailureIgnored
  <2>2. Tail(session.queue) \in Seq(Commands) BY <2>1, QueueHead
  <2> DEFINE s == [session EXCEPT !.queue = Tail(@)]
             quiet == s.undisturbed /\ failures' = failures
  <2>3. s \in Session /\ s.stage = session.stage /\ s.step = session.step
    BY <2>2, <1>1 DEF Session
  <2>4. session' = [s EXCEPT !.undisturbed = quiet]
    BY <1>11 DEF FailureIgnored, Disturbed
  <2>7. quiet \in BOOLEAN OBVIOUS
  <2> HIDE DEF s, quiet
  <2>5. session' \in Session /\ session'.stage = s.stage /\ session'.step = s.step
    BY <2>3, <2>4, <2>7 DEF Session
  <2>6. Placed' BY <2>1, <2>3, <2>5, <1>1 DEF Placed
  <2> QED BY <1>1, <1>3, <2>1, <2>5, <2>6
<1>12. CASE FailureRaised
  <2>1. /\ session.stage = "run" /\ session.queue # <<>> /\ UNCHANGED machine
        /\ failures' \in 0 .. MaxMishaps /\ sessions' = sessions
    BY <1>12, FailureCounted DEF FailureRaised
  <2> DEFINE stage == IF session.step <= Len(InstallSteps) THEN "ask" ELSE "exited"
  <2>2. stage \in {"ask", "exited"} /\ (stage = "ask" => session.step <= 19)
    BY ProgramNames
  <2> DEFINE s == [session EXCEPT !.queue = <<>>, !.stage = stage, !.code = 1]
             quiet == s.undisturbed /\ failures' = failures
  <2>4. session' = [s EXCEPT !.undisturbed = quiet]
    BY <1>12 DEF FailureRaised, Disturbed
  <2>7. quiet \in BOOLEAN OBVIOUS
  <2> HIDE DEF stage
  <2>3. s \in Session /\ s.queue = <<>> /\ s.step = session.step /\ s.stage = stage
    BY <1>1, <1>2, <2>2 DEF Session, Stages
  <2> HIDE DEF s, quiet
  <2>5. /\ session' \in Session /\ session'.stage = s.stage /\ session'.step = s.step
        /\ session'.queue = s.queue
    BY <2>3, <2>4, <2>7 DEF Session
  <2>6. Placed' BY <2>1, <2>2, <2>3, <2>5, <1>1 DEF Placed
  <2> QED BY <1>1, <1>3, <2>1, <2>5, <2>6
<1>13. CASE BeginStep
  <2>1. /\ session.stage = "run" /\ session.step < 24
        /\ session' = [session EXCEPT
             !.step = @ + 1, !.queue = CommandsOf(Program[session.step + 1], session)]
        /\ UNCHANGED <<machine, sessions, failures>>
    BY <1>13, ProgramNames DEF BeginStep, AtEndOfStep
  <2>6. \A n \in Nat : n < 24 => n + 1 \in 1 .. 24 /\ n + 1 \in Nat OBVIOUS
  <2>2. session.step + 1 \in 1 .. 24 /\ session.step + 1 \in Nat BY <2>1, <2>6, <1>2
  <2>3. CommandsOf(Program[session.step + 1], session) \in Seq(Commands)
    BY <2>2, CommandsTyped
  <2>4. /\ session' \in Session /\ session'.stage = "run"
        /\ session'.step = session.step + 1
    BY <2>1, <2>2, <2>3, <1>1 DEF Session
  <2>5. Placed' BY <2>2, <2>4 DEF Placed
  <2> QED BY <1>1, <1>3, <2>1, <2>4, <2>5
<1>14. CASE Finish
  <2>1. /\ session' = [session EXCEPT !.stage = "exited"] /\ session.queue = <<>>
        /\ UNCHANGED <<machine, sessions, failures>>
    BY <1>14 DEF Finish, AtEndOfStep
  <2>2. session' \in Session BY <2>1, <1>1 DEF Session, Stages
  <2>3. /\ session'.stage = "exited" /\ session'.step = session.step
        /\ session'.queue = session.queue
    BY <2>1, <1>1 DEF Session
  <2>4. Placed' BY <2>1, <2>3, <1>1 DEF Placed
  <2> QED BY <1>1, <1>3, <2>1, <2>2, <2>4
<1>15. CASE Continue
  <2>1. /\ session' = [session EXCEPT !.stage = "run", !.code = 0]
        /\ UNCHANGED <<machine, sessions, failures>>
    BY <1>15 DEF Continue
  <2>2. session' \in Session BY <2>1, <1>1 DEF Session, Stages
  <2>3. session'.stage = "run" /\ session'.step = session.step BY <2>1, <1>1 DEF Session
  <2>4. Placed' BY <2>1, <2>3, <1>1 DEF Placed
  <2> QED BY <1>1, <1>3, <2>1, <2>2, <2>4
<1>16. CASE GiveUp
  <2>1. /\ session' = [session EXCEPT !.stage = "exited"] /\ session.stage = "ask"
        /\ UNCHANGED <<machine, sessions, failures>>
    BY <1>16 DEF GiveUp
  <2>2. session' \in Session BY <2>1, <1>1 DEF Session, Stages
  <2>3. /\ session'.stage = "exited" /\ session'.step = session.step
        /\ session'.queue = session.queue
    BY <2>1, <1>1 DEF Session
  <2>4. Placed' BY <2>1, <2>3, <1>1 DEF Placed
  <2> QED BY <1>1, <1>3, <2>1, <2>2, <2>4
<1>17. CASE Interrupt
  <2>1. /\ session' = [session EXCEPT !.stage = "exited", !.code = 130, !.queue = <<>>]
        /\ UNCHANGED <<machine, sessions, failures>>
    BY <1>17 DEF Interrupt
  <2>2. session' \in Session BY <2>1, <1>1, <1>2 DEF Session, Stages
  <2>3. /\ session'.stage = "exited" /\ session'.step = session.step
        /\ session'.queue = <<>>
    BY <2>1, <1>1 DEF Session
  <2>4. Placed' BY <2>1, <2>3, <1>1 DEF Placed
  <2> QED BY <1>1, <1>3, <2>1, <2>2, <2>4
<1> QED
  BY <1>4, <1>5, <1>6, <1>7, <1>8, <1>9, <1>10, <1>11, <1>12, <1>13, <1>14, <1>15,
     <1>16, <1>17

LEMMA InstallerKeepsTypes ==
  ASSUME InstallInv, InstallerNext PROVE InstallInv'
BY DiskCommandTypes, FileCommandTypes, SessionTypes DEF InstallerNext, Work

----------------------------------------------------------------------------
(* Installed systems and their snapshots *)

Promise == [by : By, disk : Disks \cup {NoDisk}, version : 0 .. MaxUpdates]

\* The installer only runs on the live system.
TypeInv ==
  /\ RecoveryTypeOK /\ InstallInv
  /\ running # LiveSystem => session.stage = "off"

LEMMA RunningFacts ==
  ASSUME RecoveryTypeOK
  PROVE  /\ running.version \in 0 .. MaxUpdates
         /\ OnInstalled => /\ running \in [disk : Disks, version : 0 .. MaxUpdates]
                           /\ running # LiveSystem /\ running # Down
                           /\ Here \in Disks /\ system[Here] \in System
         /\ running = LiveSystem \/ running = Down => ~OnInstalled
<1>1. 0 \in 0 .. MaxUpdates BY RecoveryAssumption
<1>2. /\ LiveSystem.disk = NoDisk /\ LiveSystem.version = 0
      /\ Down.disk \notin Disks /\ Down.version = 0
  BY DownIsNoDisk DEF LiveSystem, Down
<1>3. running.version \in 0 .. MaxUpdates BY <1>1, <1>2 DEF RecoveryTypeOK
<1>4. running = LiveSystem \/ running = Down => ~OnInstalled
  BY <1>2, InstallerAssumption DEF OnInstalled, Here
<1> QED BY <1>3, <1>4 DEF RecoveryTypeOK, OnInstalled, Here

LEMMA SnapshotFacts ==
  ASSUME NEW d \in Disks, system[d] \in System
  PROVE  /\ Snapshots(d) \subseteq Snapshot
         /\ \A nr : Listed(d, nr) =>
              WithNumber(d, nr) \in Snapshots(d) /\ WithNumber(d, nr).nr = nr
         /\ \A read \in BOOLEAN :
              system[d].snapshots # <<>> => RollbackTarget(d, read) \in Snapshots(d)
<1>1. system[d].snapshots \in Seq(Snapshot) BY DEF System
<1>2. Snapshots(d) \subseteq Snapshot BY <1>1 DEF Snapshots, ToSet
<1>3. ASSUME NEW nr, Listed(d, nr)
      PROVE  WithNumber(d, nr) \in Snapshots(d) /\ WithNumber(d, nr).nr = nr
  <2>1. \E s \in Snapshots(d) : s.nr = nr BY <1>3 DEF Listed
  <2> QED BY <2>1 DEF WithNumber
<1>4. ASSUME NEW read \in BOOLEAN, system[d].snapshots # <<>>
      PROVE  RollbackTarget(d, read) \in Snapshots(d)
  <2>1. CASE read /\ Listed(d, system[d].journal) BY <2>1, <1>3 DEF RollbackTarget
  <2>2. CASE ~(read /\ Listed(d, system[d].journal))
    <3> DEFINE q == system[d].snapshots
    <3>1. q \in Seq(Snapshot) /\ q # <<>> BY <1>1, <1>4
    <3>2. RollbackTarget(d, read) = Last(q) BY <2>2 DEF RollbackTarget
    <3>3. Snapshots(d) = ToSet(q) BY DEF Snapshots
    <3> HIDE DEF q
    <3>4. Len(q) \in DOMAIN q BY <3>1, LenProperties, EmptySeq
    <3>5. Last(q) \in ToSet(q) BY <3>4 DEF Last, ToSet
    <3> QED BY <3>2, <3>3, <3>5
  <2> QED BY <2>1, <2>2
<1> QED BY <1>2, <1>3, <1>4

LEMMA NewSystemTyped == NewSystem \in System
<1>1. /\ 0 \in 0 .. MaxUpdates /\ 0 \in 0 .. MaxSnapshots /\ <<>> \in Seq(Snapshot)
  BY RecoveryAssumption, ShortSequences
<1> QED BY <1>1 DEF NewSystem, System

LEMMA TakenFacts ==
  ASSUME NEW s \in System, s.taken < MaxSnapshots
  PROVE  /\ Taken(s) \in System
         /\ Taken(s).version = s.version /\ Taken(s).taken = s.taken + 1
         /\ Taken(s).journal = s.journal /\ Taken(s).default = s.default
         /\ ToSet(Taken(s).snapshots) =
              ToSet(s.snapshots) \cup {[nr |-> s.taken + 1, version |-> s.version]}
<1> DEFINE new == [nr |-> s.taken + 1, version |-> s.version]
<1>1. /\ s.taken \in 0 .. MaxSnapshots /\ s.version \in 0 .. MaxUpdates
      /\ s.snapshots \in Seq(Snapshot) /\ MaxSnapshots \in Nat
  BY RecoveryAssumption DEF System
<1>2. s.taken + 1 \in 1 .. MaxSnapshots /\ s.taken + 1 \in 0 .. MaxSnapshots BY <1>1
<1>3. new \in Snapshot BY <1>1, <1>2 DEF Snapshot
<1> HIDE DEF new
<1> DEFINE q == Append(s.snapshots, new)
<1>4. q \in Seq(Snapshot) BY <1>1, <1>3, AppendProperties
<1>5. ToSet(q) = ToSet(s.snapshots) \cup {new}
  <2>1. /\ Len(q) = Len(s.snapshots) + 1 /\ q[Len(s.snapshots) + 1] = new
        /\ \A i \in 1 .. Len(s.snapshots) : q[i] = s.snapshots[i]
        /\ Len(s.snapshots) \in Nat /\ DOMAIN s.snapshots = 1 .. Len(s.snapshots)
    BY <1>1, <1>3, AppendProperties, LenProperties
  <2>2. DOMAIN q = 1 .. Len(s.snapshots) + 1 BY <1>4, <2>1, LenProperties
  <2> HIDE DEF q
  <2> QED BY <2>1, <2>2 DEF ToSet
<1>6. Taken(s) = [s EXCEPT !.taken = @ + 1, !.snapshots = q] BY DEF Taken, new
<1> HIDE DEF q
<1>7. /\ Taken(s) \in System /\ Taken(s).version = s.version
      /\ Taken(s).taken = s.taken + 1 /\ Taken(s).journal = s.journal
      /\ Taken(s).default = s.default /\ Taken(s).snapshots = q
  BY <1>2, <1>4, <1>6 DEF System
<1> QED BY <1>5, <1>7 DEF new

----------------------------------------------------------------------------
(* Types, continued *)

LEMMA GoesDownTypes ==
  ASSUME InstallInv, GoesDown
  PROVE  InstallInv' /\ running' = Down /\ session'.stage = "off"
<1>1. /\ running' = Down /\ mapper' = NoDisk /\ mnt' = <<LiveDirectory>> /\ bare' = {}
      /\ session' = NoSession /\ UNCHANGED <<efi, content, sessions, failures>>
  BY DEF GoesDown, Restarted
<1>2. NoSession \in Session BY ShortSequences DEF NoSession, Session, Stages
<1>3. /\ NoSession.stage = "off" /\ NoSession.queue = <<>> /\ NoSession.step = 0
  BY DEF NoSession
<1>4. LayersOK(mnt') BY <1>1, LiveLayer
<1>5. mnt' \in Seq(Layer) /\ Len(mnt') >= 1 BY <1>4 DEF LayersOK
<1>6. InstallerTypeOK' BY <1>1, <1>2, <1>5 DEF InstallInv, InstallerTypeOK
<1>7. Placed' BY <1>1, <1>3 DEF Placed
<1> QED BY <1>1, <1>3, <1>4, <1>6, <1>7 DEF InstallInv

LEMMA TypesAtStart == RecoveryInit => TypeInv
<1> SUFFICES ASSUME RecoveryInit PROVE TypeInv OBVIOUS
<1>1. /\ efi \in BOOLEAN /\ mapper \in Disks \cup {NoDisk}
      /\ content = [d \in Disks |-> Foreign(d = mapper)]
      /\ mnt = <<LiveDirectory>> /\ bare = {}
      /\ session = NoSession /\ sessions = 0 /\ failures = 0
      /\ running = LiveSystem /\ system = [d \in Disks |-> NewSystem] /\ promise = NoPromise
  BY DEF RecoveryInit, InstallerInit
<1>2. NoSession \in Session BY ShortSequences DEF NoSession, Session, Stages
<1>3. /\ NoSession.stage = "off" /\ NoSession.queue = <<>> /\ NoSession.step = 0
  BY DEF NoSession
<1>4. \A b \in BOOLEAN : Foreign(b) \in Content BY DEF Foreign, Content
<1>5. LayersOK(mnt) BY <1>1, LiveLayer
<1>6. mnt \in Seq(Layer) /\ Len(mnt) >= 1 BY <1>5 DEF LayersOK
<1>7. 0 \in 0 .. MaxMishaps /\ 0 \in 0 .. MaxMishaps + 1 /\ 0 \in 0 .. MaxUpdates
  BY InstallerAssumption, RecoveryAssumption
<1>8. InstallerTypeOK BY <1>1, <1>2, <1>4, <1>6, <1>7 DEF InstallerTypeOK
<1>9. Placed BY <1>1, <1>3 DEF Placed
<1>10. promise \in Promise
  BY <1>1, <1>7 DEF NoPromise, By, Promise
<1> QED BY <1>1, <1>5, <1>8, <1>9, <1>10, NewSystemTyped
        DEF Promise, TypeInv, RecoveryTypeOK, InstallInv

\* What recovery sets or says, it says of a snapshot.
LEMMA SetDefaultTypes ==
  ASSUME TypeInv, OnInstalled, NEW s \in Snapshots(Here), NEW by \in By, SetDefault(s, by)
  PROVE  TypeInv'
<1>1. /\ Here \in Disks /\ system[Here] \in System /\ running # LiveSystem
      /\ system \in [Disks -> System]
  BY RunningFacts DEF TypeInv, RecoveryTypeOK
<1>2. s \in Snapshot BY <1>1, SnapshotFacts
<1>3. CASE /\ Change([system[Here] EXCEPT !.default = s.nr])
           /\ promise' = [by |-> by, disk |-> Here, version |-> s.version]
           /\ GoesDown
  <2>1. s.nr \in 0 .. MaxSnapshots /\ s.version \in 0 .. MaxUpdates
    BY <1>2, RecoveryAssumption DEF Snapshot
  <2>2. [system[Here] EXCEPT !.default = s.nr] \in System BY <1>1, <2>1 DEF System
  <2>3. system' \in [Disks -> System] BY <1>1, <1>3, <2>2 DEF Change
  <2>4. promise' \in Promise BY <1>1, <1>3, <2>1 DEF Promise
  <2>5. InstallInv' /\ running' = Down /\ session'.stage = "off"
    BY <1>3, GoesDownTypes DEF TypeInv
  <2> QED BY <2>3, <2>4, <2>5 DEF TypeInv, RecoveryTypeOK, Promise, InstallInv
<1>4. CASE UNCHANGED <<ivars, running, system, promise>>
  BY <1>4 DEF TypeInv, RecoveryTypeOK, Promise, InstallInv, InstallerTypeOK, LayersOK, Placed,
              ivars, machine
<1> QED BY <1>3, <1>4 DEF SetDefault

LEMMA AddedByHand ==
  ASSUME InstallInv, NEW d \in Disks, AddMissing(d)
  PROVE  InstallInv' /\ UNCHANGED <<session, running, system, promise>>
<1> DEFINE old == content[d]
           new == [old EXCEPT
                     !.esp = IF efi THEN @ \cup Missing(d) ELSE @,
                     !.boot = IF efi THEN @ ELSE @ \cup (Missing(d) \cap {"kernel"}),
                     !.files = IF efi THEN @ ELSE @ \cup ({"@"} \X (Missing(d) \ {"kernel"}))]
<1>1. /\ content \in [Disks -> Content] /\ sessions \in 0 .. MaxMishaps + 1
      /\ MaxMishaps \in Nat /\ failures \in 0 .. MaxMishaps
  BY InstallerAssumption DEF InstallInv, InstallerTypeOK
<1>2. /\ content' = [content EXCEPT ![d] = new]
      /\ sessions' = sessions + 1 /\ Mishaps < MaxMishaps
      /\ UNCHANGED <<efi, mapper, mnt, bare, session, failures, running, system, promise>>
  BY <1>1 DEF AddMissing
<1>3. new \in Content
  <2>1. old \in Content BY <1>1
  <2>2. efi => Missing(d) \subseteq {"loader", "entries", "kernel"} BY DEF Missing
  <2>3. ~efi => {"@"} \X (Missing(d) \ {"kernel"}) \in SUBSET (Subvolumes \X Files)
    <3>1. ~efi => Missing(d) \ {"kernel"} \subseteq {"grub", "grub.cfg"} BY DEF Missing
    <3>2. "@" \in Subvolumes /\ "grub" \in Files /\ "grub.cfg" \in Files
      BY DEF Subvolumes, Files
    <3> QED BY <3>1, <3>2
  <2> DEFINE added == {"@"} \X (Missing(d) \ {"kernel"})
             missing == Missing(d)
  <2> HIDE DEF old, added, missing
  <2>4. [old EXCEPT !.esp = IF efi THEN @ \cup missing ELSE @,
                    !.boot = IF efi THEN @ ELSE @ \cup (missing \cap {"kernel"}),
                    !.files = IF efi THEN @ ELSE @ \cup added] \in Content
    <3>1. efi => missing \subseteq {"loader", "entries", "kernel"} BY <2>2 DEF missing
    <3>2. ~efi => added \in SUBSET (Subvolumes \X Files) BY <2>3 DEF added
    <3> QED BY <2>1, <3>1, <3>2 DEF Content
  <2> QED BY <2>4 DEF added, missing
<1> HIDE DEF new
<1>4. content' \in [Disks -> Content] BY <1>1, <1>2, <1>3, ContentPut
<1>5. sessions' \in 0 .. MaxMishaps + 1 BY <1>1, <1>2 DEF Mishaps
<1> QED BY <1>2, <1>4, <1>5 DEF InstallInv, InstallerTypeOK, LayersOK, Placed

LEMMA TypesKept == ASSUME TypeInv, [RecoveryNext]_rvars PROVE TypeInv'
<1>1. /\ InstallInv /\ system \in [Disks -> System]
      /\ promise \in Promise
      /\ running \in [disk : Disks, version : 0 .. MaxUpdates] \cup {LiveSystem, Down}
      /\ 0 \in 0 .. MaxUpdates /\ running.version \in 0 .. MaxUpdates
  BY RecoveryAssumption, RunningFacts DEF TypeInv, RecoveryTypeOK, Promise
<1>2. ASSUME UNCHANGED ivars PROVE InstallInv'
  BY <1>2, <1>1 DEF InstallInv, InstallerTypeOK, LayersOK, Placed, ivars, machine
<1>3. ASSUME UNCHANGED ivars PROVE session'.stage = session.stage
  BY <1>3 DEF ivars
<1>4. CASE UNCHANGED rvars
  BY <1>1, <1>2, <1>3, <1>4 DEF TypeInv, RecoveryTypeOK, Promise, rvars, InstallInv
<1>5. CASE Live(InstallerNext)
  <2>1. /\ InstallInv' /\ UNCHANGED <<running, promise>> /\ running = LiveSystem
        /\ system' = [d \in Disks |-> IF content'[d].btrfs = "ready" THEN system[d]
                                      ELSE NewSystem]
    BY <1>1, <1>5, InstallerKeepsTypes DEF Live
  <2>2. system' \in [Disks -> System] BY <1>1, <2>1, NewSystemTyped
  <2> QED BY <1>1, <2>1, <2>2 DEF TypeInv, RecoveryTypeOK, Promise, InstallInv
<1>6. ASSUME NEW d \in Disks, BootDisk(d) PROVE TypeInv'
  <2>1. /\ running' = [disk |-> d, version |-> system[d].version]
        /\ promise' = NoPromise /\ UNCHANGED <<ivars, system>> /\ running = Down
    BY <1>6 DEF BootDisk, BootedVersion
  <2>2. running' \in [disk : Disks, version : 0 .. MaxUpdates]
    BY <1>1, <2>1 DEF System
  <2>3. promise' \in Promise
    BY <1>1, <2>1 DEF NoPromise, By, Promise
  <2>4. session.stage = "off"
    <3>1. Down # LiveSystem BY DownIsNoDisk DEF Down, LiveSystem
    <3> QED BY <2>1, <3>1 DEF TypeInv
  <2> QED BY <1>1, <1>2, <1>3, <2>1, <2>2, <2>3, <2>4 DEF TypeInv, RecoveryTypeOK, Promise, InstallInv
<1>7. CASE BootLive
  <2>1. /\ running' = LiveSystem /\ promise' = NoPromise /\ UNCHANGED <<ivars, system>>
    BY <1>7 DEF BootLive
  <2>2. promise' \in Promise
    BY <1>1, <2>1 DEF NoPromise, By, Promise
  <2> QED BY <1>1, <1>2, <2>1, <2>2 DEF TypeInv, RecoveryTypeOK, Promise, InstallInv
<1>8. CASE Restart
  <2>1. InstallInv' /\ running' = Down /\ session'.stage = "off"
        /\ UNCHANGED <<system, promise>>
    BY <1>1, <1>8, GoesDownTypes DEF Restart
  <2> QED BY <1>1, <2>1 DEF TypeInv, RecoveryTypeOK, Promise, InstallInv
<1>9. ASSUME OnInstalled
      PROVE  Here \in Disks /\ system[Here] \in System /\ running # LiveSystem
             /\ session.stage = "off"
             /\ running \in [disk : Disks, version : 0 .. MaxUpdates]
  BY <1>9, RunningFacts DEF TypeInv
<1>10. ASSUME NEW new \in System, OnInstalled, Change(new)
       PROVE  system' \in [Disks -> System]
  BY <1>10, <1>1, <1>9 DEF Change
<1>11. CASE TakeSnapshot
  <2>1. OnInstalled /\ system[Here].taken < MaxSnapshots /\ Change(Taken(system[Here]))
        /\ UNCHANGED <<ivars, running, promise>>
    BY <1>11 DEF TakeSnapshot
  <2>2. system' \in [Disks -> System] BY <2>1, <1>9, <1>10, TakenFacts
  <2> QED BY <1>1, <1>2, <1>3, <2>1, <2>2, <1>9 DEF TypeInv, RecoveryTypeOK, Promise, InstallInv
<1>12. CASE DeleteSnapshot
  <2>1. OnInstalled /\ UNCHANGED <<ivars, running, promise>> BY <1>12 DEF DeleteSnapshot
  <2>2. PICK i \in DOMAIN system[Here].snapshots :
          Change([system[Here] EXCEPT !.snapshots = RemoveAt(@, i)])
    BY <1>12 DEF DeleteSnapshot
  <2>3. system[Here].snapshots \in Seq(Snapshot) BY <1>9, <2>1 DEF System
  <2>4. RemoveAt(system[Here].snapshots, i) \in Seq(Snapshot) BY <2>3, RemovedAt
  <2>5. [system[Here] EXCEPT !.snapshots = RemoveAt(@, i)] \in System
    BY <1>9, <2>1, <2>4 DEF System
  <2>6. system' \in [Disks -> System] BY <2>1, <2>2, <2>5, <1>10
  <2> QED BY <1>1, <1>2, <1>3, <2>1, <2>6, <1>9 DEF TypeInv, RecoveryTypeOK, Promise, InstallInv
<1>13. ASSUME NEW journaled \in BOOLEAN, Update(journaled) PROVE TypeInv'
  <2> DEFINE s == Taken(system[Here])
             new == [s EXCEPT !.version = running.version + 1,
                              !.journal = IF journaled THEN s.taken ELSE @]
  <2>1. /\ OnInstalled /\ system[Here].taken < MaxSnapshots
        /\ running.version < MaxUpdates /\ Change(new)
        /\ running' = [running EXCEPT !.version = @ + 1] /\ UNCHANGED <<ivars, promise>>
    BY <1>13 DEF Update
  <2>2. s \in System BY <2>1, <1>9, TakenFacts
  <2> HIDE DEF s
  <2>3. running.version + 1 \in 0 .. MaxUpdates BY <1>1, <2>1, RecoveryAssumption
  <2>4. (IF journaled THEN s.taken ELSE s.journal) \in 0 .. MaxSnapshots
    BY <2>2 DEF System
  <2>5. new \in System BY <2>2, <2>3, <2>4 DEF System
  <2>6. running' \in [disk : Disks, version : 0 .. MaxUpdates] BY <1>9, <2>1, <2>3
  <2> HIDE DEF new
  <2>7. system' \in [Disks -> System] BY <2>1, <2>5, <1>10
  <2> QED BY <1>1, <1>2, <1>3, <2>1, <2>6, <2>7, <1>9
          DEF TypeInv, RecoveryTypeOK, Promise, InstallInv
<1>14. CASE BootPrevious
  <2>1. OnInstalled /\ \E s \in Snapshots(Here) : SetDefault(s, "previous")
    BY <1>14 DEF BootPrevious
  <2> QED BY <2>1, SetDefaultTypes DEF By
<1>15. CASE RollbackUpdate
  <2>1. OnInstalled /\ system[Here].snapshots # <<>> BY <1>15 DEF RollbackUpdate
  <2>2. PICK read \in BOOLEAN :
          SetDefault(RollbackTarget(Here, read),
                     IF read THEN "rollback" ELSE "unread rollback")
    BY <1>15 DEF RollbackUpdate
  <2>3. RollbackTarget(Here, read) \in Snapshots(Here) BY <2>1, <1>9, SnapshotFacts
  <2>4. (IF read THEN "rollback" ELSE "unread rollback") \in By BY DEF By
  <2> QED BY <2>1, <2>2, <2>3, <2>4, SetDefaultTypes
<1>16. CASE Repair
  <2>1. /\ OnInstalled
        /\ content' = [content EXCEPT ![Here].files = @ \cup {<<"@", "initramfs">>},
                                      ![Here].esp = IF efi THEN @ \cup {"loader"} ELSE @]
        /\ UNCHANGED <<efi, mapper, mnt, bare, session, sessions, failures>>
        /\ UNCHANGED <<running, system, promise>>
    BY <1>16 DEF Repair
  <2>2. content \in [Disks -> Content] BY <1>1 DEF InstallInv, InstallerTypeOK
  <2> DEFINE old == content[Here]
             new == [old EXCEPT !.files = @ \cup {<<"@", "initramfs">>},
                                !.esp = IF efi THEN @ \cup {"loader"} ELSE @]
  <2>3. new \in Content
    <3>1. <<"@", "initramfs">> \in Subvolumes \X Files BY DEF Subvolumes, Files
    <3>2. old \in Content BY <1>9, <2>1, <2>2
    <3> HIDE DEF old
    <3> QED BY <3>1, <3>2 DEF Content
  <2>4. content' = [content EXCEPT ![Here] = new] BY <1>9, <2>1, <2>2
  <2> HIDE DEF new
  <2>5. content' \in [Disks -> Content] BY <2>2, <2>3, <2>4, ContentPut
  <2>6. InstallInv' BY <1>1, <2>1, <2>5 DEF InstallInv, InstallerTypeOK, LayersOK, Placed
  <2> QED BY <1>1, <2>1, <2>6, <1>9 DEF TypeInv, RecoveryTypeOK, Promise, InstallInv
<1>17. CASE EngineRollback
  <2>1. /\ promise' = [by |-> "engine", disk |-> Here, version |-> 0] /\ UNCHANGED <<ivars, running, system>>
        /\ OnInstalled
    BY <1>17 DEF EngineRollback
  <2>2. promise' \in Promise BY <1>1, <1>9, <2>1 DEF By, Promise
  <2> QED BY <1>1, <1>2, <1>3, <2>1, <2>2, <1>9 DEF TypeInv, RecoveryTypeOK, Promise, InstallInv
<1>18. CASE EngineBootPrevious
  <2>1. /\ promise' = [by |-> "engine", disk |-> Here, version |-> 0] /\ GoesDown
        /\ OnInstalled /\ UNCHANGED system
    BY <1>18 DEF EngineBootPrevious
  <2>2. promise' \in Promise BY <1>1, <1>9, <2>1 DEF By, Promise
  <2>3. InstallInv' /\ running' = Down /\ session'.stage = "off"
    BY <1>1, <2>1, GoesDownTypes
  <2> QED BY <1>1, <2>1, <2>2, <2>3 DEF TypeInv, RecoveryTypeOK, Promise, InstallInv
<1>19. ASSUME NEW d \in Disks, AddMissing(d) PROVE TypeInv'
  <2>1. InstallInv' /\ UNCHANGED <<session, running, system, promise>>
    BY <1>1, <1>19, AddedByHand
  <2> QED BY <1>1, <2>1 DEF TypeInv, RecoveryTypeOK, Promise, InstallInv
<1> QED
  BY <1>4, <1>5, <1>6, <1>7, <1>8, <1>11, <1>12, <1>13, <1>14, <1>15, <1>16, <1>17, <1>18,
     <1>19
  DEF RecoveryNext, Boots, Lives, Recovers

LEMMA TypesHold == FairRecoverySpec => []TypeInv
BY TypesAtStart, TypesKept, PTL DEF FairRecoverySpec

(***************************************************************************)
(* Types of disks, mounts, sessions, installed systems and promises, over  *)
(* every session, boot, update and rollback (installer/kairos_installer.py *)
(* and recovery/kairos_recovery.py).                                       *)
(***************************************************************************)
THEOREM MachineTypesCorrect == FairRecoverySpec => []RecoveryTypeOK
<1>1. TypeInv => RecoveryTypeOK BY DEF TypeInv
<1> QED BY <1>1, TypesHold, PTL

----------------------------------------------------------------------------
(* Rollbacks *)

\* The snapshot the journal names is without the update it was taken before.
JournalOK(s) ==
  /\ s.journal <= s.taken
  /\ \A x \in ToSet(s.snapshots) :
       x.nr <= s.taken /\ (x.nr = s.journal => x.version < s.version)

\* Snapshots are listed in the order they were taken in.
Ordered(s) ==
  /\ \A x \in ToSet(s.snapshots) : x.version <= s.version
  /\ \A i, j \in DOMAIN s.snapshots :
       i <= j => s.snapshots[i].version <= s.snapshots[j].version

History(s) == JournalOK(s) /\ Ordered(s)

\* What runs is what lies on its disk.
Current == OnInstalled => running.version = system[Here].version

\* A promise of recovery stands until the next boot.
Promised ==
  promise.by \in Rollbacks =>
    /\ running = Down /\ promise.disk \in Disks
    /\ promise.version <= system[promise.disk].version
    /\ promise.by = "rollback" /\ Listed(promise.disk, system[promise.disk].journal)
         => promise.version < system[promise.disk].version

RollbackInv == Current /\ Promised /\ \A d \in Disks : History(system[d])

LEMMA SystemFields ==
  ASSUME NEW s \in System
  PROVE  /\ s.taken \in Int /\ s.journal \in Int /\ s.version \in Int /\ s.version \in Nat
         /\ s.snapshots \in Seq(Snapshot)
         /\ \A x \in ToSet(s.snapshots) : x.nr \in Int /\ x.version \in Int
         /\ \A i \in DOMAIN s.snapshots :
              s.snapshots[i] \in ToSet(s.snapshots) /\ s.snapshots[i].version \in Int
<1>1. /\ s.taken \in Int /\ s.journal \in Int /\ s.version \in Int /\ s.version \in Nat
      /\ s.snapshots \in Seq(Snapshot)
  BY RecoveryAssumption DEF System
<1>2. \A x \in Snapshot : x.nr \in Int /\ x.version \in Int
  BY RecoveryAssumption DEF Snapshot
<1>3. \A x \in ToSet(s.snapshots) : x \in Snapshot BY <1>1 DEF ToSet
<1>4. \A i \in DOMAIN s.snapshots : s.snapshots[i] \in ToSet(s.snapshots) BY DEF ToSet
<1> QED BY <1>1, <1>2, <1>3, <1>4

LEMMA NewSystemHistory == History(NewSystem)
<1>1. ToSet(<<>>) = {} /\ DOMAIN <<>> = {} BY DEF ToSet
<1>2. NewSystem.snapshots = <<>> /\ NewSystem.journal = 0 /\ NewSystem.taken = 0
  BY DEF NewSystem
<1> QED BY <1>1, <1>2 DEF History, JournalOK, Ordered

\* Only the snapshots, the version and the journal of a system are its history.
LEMMA SameHistory ==
  ASSUME NEW s, NEW t, History(s), t.snapshots = s.snapshots, t.taken = s.taken,
         t.journal = s.journal, t.version = s.version
  PROVE  History(t)
BY DEF History, JournalOK, Ordered

LEMMA TakenOrder ==
  ASSUME NEW s \in System, s.taken < MaxSnapshots, Ordered(s)
  PROVE  Ordered(Taken(s))
<1> DEFINE new == [nr |-> s.taken + 1, version |-> s.version]
           q == s.snapshots
<1>1. s.version \in Int /\ q \in Seq(Snapshot) /\ Len(q) \in Nat /\ DOMAIN q = 1 .. Len(q)
  BY SystemFields, LenProperties
<1>2. /\ Taken(s).version = s.version
      /\ ToSet(Taken(s).snapshots) = ToSet(q) \cup {new}
      /\ Taken(s).snapshots \in Seq(Snapshot)
  BY TakenFacts DEF System
<1>3. Taken(s).snapshots = Append(q, new) BY DEF Taken, System
<1>4. new \in Snapshot
  <2>1. new \in ToSet(Taken(s).snapshots) BY <1>2
  <2> HIDE DEF new
  <2> QED BY <1>2, <2>1 DEF ToSet
<1>5. new.version = s.version OBVIOUS
<1> HIDE DEF new
<1>6. /\ Len(Append(q, new)) = Len(q) + 1 /\ Append(q, new)[Len(q) + 1] = new
      /\ \A i \in 1 .. Len(q) : Append(q, new)[i] = q[i]
  BY <1>1, <1>4, AppendProperties
<1> DEFINE t == Taken(s).snapshots
<1>7. /\ t \in Seq(Snapshot) /\ DOMAIN t = 1 .. Len(q) + 1 /\ t[Len(q) + 1] = new
      /\ \A i \in 1 .. Len(q) : t[i] = q[i]
  BY <1>1, <1>2, <1>3, <1>6, LenProperties
<1>8. /\ \A i \in 1 .. Len(q) : q[i].version <= s.version
      /\ \A i, j \in 1 .. Len(q) : i <= j => q[i].version <= q[j].version
  BY <1>1 DEF Ordered, ToSet
<1> HIDE DEF q, t
<1>9. ASSUME NEW i \in DOMAIN t, NEW j \in DOMAIN t, i <= j
      PROVE  t[i].version <= t[j].version
  <2>1. CASE j = Len(q) + 1
    <3>1. CASE i = j BY <1>1, <1>5, <1>7, <2>1, <3>1
    <3>2. CASE i # j BY <1>1, <1>5, <1>7, <1>8, <1>9, <2>1, <3>2
    <3> QED BY <3>1, <3>2
  <2>2. CASE j # Len(q) + 1 BY <1>1, <1>7, <1>8, <1>9, <2>2
  <2> QED BY <2>1, <2>2
<1>10. \A x \in ToSet(t) : x.version <= s.version
  <2>1. ASSUME NEW i \in DOMAIN t PROVE t[i].version <= s.version
    BY <1>1, <1>5, <1>7, <1>8
  <2> QED BY <2>1 DEF ToSet
<1> QED BY <1>2, <1>9, <1>10 DEF Ordered, t

LEMMA TakenHistory ==
  ASSUME NEW s \in System, s.taken < MaxSnapshots, History(s)
  PROVE  History(Taken(s))
<1>1. s.taken \in Int /\ s.journal \in Int /\ s.version \in Int BY SystemFields
<1>2. \A x \in ToSet(s.snapshots) : x.nr \in Int BY SystemFields
<1> DEFINE new == [nr |-> s.taken + 1, version |-> s.version]
<1>3. new.nr = s.taken + 1 OBVIOUS
<1> HIDE DEF new
<1>4. ASSUME NEW x \in ToSet(Taken(s).snapshots)
      PROVE  x.nr <= s.taken + 1 /\ (x.nr = s.journal => x.version < s.version)
  <2>1. x \in ToSet(s.snapshots) \/ x = new BY TakenFacts DEF new
  <2>2. CASE x \in ToSet(s.snapshots) BY <1>1, <1>2, <2>2 DEF History, JournalOK
  <2>3. CASE x = new BY <1>1, <1>3, <2>3 DEF History, JournalOK
  <2> QED BY <2>1, <2>2, <2>3
<1>5. s.journal <= s.taken + 1 BY <1>1 DEF History, JournalOK
<1>6. JournalOK(Taken(s)) BY <1>4, <1>5, TakenFacts DEF JournalOK
<1> QED BY <1>6, TakenOrder DEF History

LEMMA UpdatedHistory ==
  ASSUME NEW s \in System, s.taken < MaxSnapshots, History(s), NEW journaled \in BOOLEAN,
         NEW v \in Nat, v = s.version + 1
  PROVE  History([Taken(s) EXCEPT !.version = v,
                                  !.journal = IF journaled THEN Taken(s).taken ELSE @])
<1>1. s.taken \in Int /\ s.journal \in Int /\ s.version \in Int BY SystemFields
<1>2. \A x \in ToSet(s.snapshots) : x.nr \in Int /\ x.version \in Int BY SystemFields
<1> DEFINE t == Taken(s)
           new == [nr |-> s.taken + 1, version |-> s.version]
           u == [t EXCEPT !.version = v, !.journal = IF journaled THEN t.taken ELSE @]
<1>3. new.nr = s.taken + 1 /\ new.version = s.version OBVIOUS
<1>4. /\ t \in System /\ t.taken = s.taken + 1 /\ t.journal = s.journal
      /\ ToSet(t.snapshots) = ToSet(s.snapshots) \cup {new} /\ t.version = s.version
      /\ Ordered(t)
  BY TakenFacts, TakenOrder DEF History
<1> HIDE DEF new, t
<1>5. /\ u.snapshots = t.snapshots /\ u.taken = t.taken /\ u.version = v
      /\ u.journal = IF journaled THEN t.taken ELSE t.journal
  BY <1>4 DEF System
<1> HIDE DEF u
<1>6. u.journal <= u.taken BY <1>1, <1>4, <1>5 DEF History, JournalOK
<1>7. ASSUME NEW x \in ToSet(u.snapshots)
      PROVE  x.nr <= u.taken /\ (x.nr = u.journal => x.version < u.version)
  <2>1. x \in ToSet(s.snapshots) \/ x = new BY <1>4, <1>5
  <2>2. CASE x \in ToSet(s.snapshots)
    <3>1. /\ x.nr \in Int /\ x.version \in Int /\ x.nr <= s.taken
          /\ (x.nr = s.journal => x.version < s.version)
      BY <1>2, <2>2 DEF History, JournalOK
    <3> QED BY <1>1, <1>4, <1>5, <3>1
  <2>3. CASE x = new BY <1>1, <1>3, <1>4, <1>5, <2>3 DEF History, JournalOK
  <2> QED BY <2>1, <2>2, <2>3
<1>8. JournalOK(u) BY <1>6, <1>7 DEF JournalOK
<1>9. Ordered(u)
  <2>1. ASSUME NEW x \in ToSet(t.snapshots) PROVE x.version <= v
    <3>1. x.version \in Int /\ t.version \in Int BY <1>4, SystemFields
    <3>2. x.version <= t.version BY <1>4 DEF Ordered
    <3> QED BY <1>4, <3>1, <3>2
  <2> QED BY <1>4, <1>5, <2>1 DEF Ordered
<1>10. History(u) BY <1>8, <1>9 DEF History
<1> QED BY <1>10 DEF u, t

LEMMA DeletedHistory ==
  ASSUME NEW s \in System, History(s), NEW i \in DOMAIN s.snapshots
  PROVE  /\ History([s EXCEPT !.snapshots = RemoveAt(@, i)])
         /\ [s EXCEPT !.snapshots = RemoveAt(@, i)].version = s.version
<1> DEFINE p == s.snapshots
           q == RemoveAt(p, i)
           new == [s EXCEPT !.snapshots = q]
<1>1. p \in Seq(Snapshot) /\ Len(p) \in Nat /\ DOMAIN p = 1 .. Len(p)
  BY SystemFields, LenProperties
<1>2. /\ ToSet(q) \subseteq ToSet(p) /\ DOMAIN q = 1 .. Len(p) - 1
      /\ \A k \in 1 .. Len(p) - 1 : q[k] = p[IF k < i THEN k ELSE k + 1]
  BY <1>1, RemovedAt
<1>3. \A k, n \in DOMAIN p : k <= n => p[k].version <= p[n].version
  BY DEF History, Ordered
<1> HIDE DEF p, q
<1>4. ASSUME NEW k \in DOMAIN q, NEW n \in DOMAIN q, k <= n
      PROVE  q[k].version <= q[n].version
  <2> DEFINE a == IF k < i THEN k ELSE k + 1
             b == IF n < i THEN n ELSE n + 1
  <2>1. i \in 1 .. Len(p) BY <1>1 DEF p
  <2>2. a \in 1 .. Len(p) /\ b \in 1 .. Len(p) /\ a <= b BY <1>1, <1>2, <1>4, <2>1
  <2>3. q[k] = p[a] /\ q[n] = p[b] BY <1>2
  <2> HIDE DEF a, b
  <2> QED BY <1>1, <1>3, <2>2, <2>3
<1>5. /\ new.snapshots = q /\ new.taken = s.taken /\ new.journal = s.journal
      /\ new.version = s.version
  BY DEF System
<1> HIDE DEF new
<1>6. JournalOK(new) BY <1>2, <1>5 DEF History, JournalOK, p
<1>7. Ordered(new)
  <2>1. \A x \in ToSet(q) : x.version <= s.version BY <1>2 DEF History, Ordered, p
  <2> QED BY <1>4, <1>5, <2>1 DEF Ordered
<1> QED BY <1>5, <1>6, <1>7 DEF History, new, q, p

LEMMA RollbackAtStart == RecoveryInit => RollbackInv
<1> SUFFICES ASSUME RecoveryInit PROVE RollbackInv OBVIOUS
<1>1. /\ running = LiveSystem /\ system = [d \in Disks |-> NewSystem]
      /\ promise = NoPromise
  BY DEF RecoveryInit
<1>2. ~OnInstalled
  BY <1>1, InstallerAssumption DEF OnInstalled, Here, LiveSystem
<1>3. promise.by \notin Rollbacks BY <1>1 DEF NoPromise, Rollbacks
<1> QED BY <1>1, <1>2, <1>3, NewSystemHistory DEF RollbackInv, Current, Promised

\* What is chosen is no newer than what runs, and by the journal older.
LEMMA ChosenVersion ==
  ASSUME TypeInv, RollbackInv, OnInstalled, system[Here].snapshots # <<>>,
         NEW read \in BOOLEAN
  PROVE  /\ RollbackTarget(Here, read) \in Snapshots(Here)
         /\ RollbackTarget(Here, read).version <= running.version
         /\ IF read /\ Listed(Here, system[Here].journal)
            THEN RollbackTarget(Here, read).version < running.version
            ELSE \A s \in Snapshots(Here) : s.version <= RollbackTarget(Here, read).version
<1> DEFINE sys == system[Here]
           t == RollbackTarget(Here, read)
<1>1. /\ Here \in Disks /\ sys \in System /\ History(sys) /\ running.version = sys.version
  BY RunningFacts DEF TypeInv, RollbackInv, Current
<1>2. t \in Snapshots(Here) BY <1>1, SnapshotFacts
<1>3. t.version <= sys.version BY <1>1, <1>2 DEF History, Ordered, Snapshots
<1>4. CASE read /\ Listed(Here, sys.journal)
  <2>1. t = WithNumber(Here, sys.journal) BY <1>4 DEF RollbackTarget
  <2>2. t.nr = sys.journal BY <1>1, <1>4, <2>1, SnapshotFacts
  <2>3. t.version < sys.version BY <1>1, <1>2, <2>2 DEF History, JournalOK, Snapshots
  <2> QED BY <1>1, <1>2, <1>3, <1>4, <2>3
<1>5. CASE ~(read /\ Listed(Here, sys.journal))
  <2> DEFINE q == sys.snapshots
  <2>1. t = Last(q) BY <1>5 DEF RollbackTarget
  <2>2. q \in Seq(Snapshot) /\ q # <<>> /\ Snapshots(Here) = ToSet(q)
    BY <1>1, SystemFields DEF Snapshots
  <2>3. \A k, n \in DOMAIN q : k <= n => q[k].version <= q[n].version
    BY <1>1 DEF History, Ordered
  <2> HIDE DEF q
  <2>4. Len(q) \in Nat /\ Len(q) \in DOMAIN q /\ DOMAIN q = 1 .. Len(q)
    BY <2>2, LenProperties, EmptySeq
  <2>5. \A k \in DOMAIN q : q[k].version <= q[Len(q)].version BY <2>3, <2>4
  <2>6. \A s \in ToSet(q) : s.version <= t.version BY <2>1, <2>5 DEF Last, ToSet
  <2> QED BY <1>1, <1>2, <1>3, <1>5, <2>2, <2>6
<1> QED BY <1>4, <1>5

LEMMA RollbackKept ==
  ASSUME TypeInv, RollbackInv, [RecoveryNext]_rvars PROVE RollbackInv'
<1>1. /\ system \in [Disks -> System]
      /\ running.version \in 0 .. MaxUpdates
  BY RunningFacts DEF TypeInv, RecoveryTypeOK
<1>2. ASSUME OnInstalled
      PROVE  /\ Here \in Disks /\ system[Here] \in System /\ History(system[Here])
             /\ running \in [disk : Disks, version : 0 .. MaxUpdates]
             /\ running.version = system[Here].version
             /\ running # Down
  BY <1>2, RunningFacts DEF TypeInv, RollbackInv, Current
<1>3. ASSUME UNCHANGED <<running, system, promise>> PROVE RollbackInv'
  BY <1>3 DEF RollbackInv, Current, Promised, Listed, Snapshots, OnInstalled, Here
\* A promise that is none of a rollback.
<1>4. ASSUME \A d \in Disks : History(system'[d]), Current', promise'.by \notin Rollbacks
      PROVE  RollbackInv'
  BY <1>4 DEF RollbackInv, Promised
<1>5. ASSUME running' = Down \/ running' = LiveSystem PROVE Current'
  <2>1. running'.disk \notin Disks
    BY <1>5, DownIsNoDisk, InstallerAssumption DEF Down, LiveSystem
  <2> QED BY <2>1 DEF Current, OnInstalled, Here
<1>6. running # Down => promise.by \notin Rollbacks BY DEF RollbackInv, Promised
\* What runs changes the system it runs.
<1>7. ASSUME NEW new, OnInstalled, Change(new), History(new), promise' = promise,
             running'.disk = running.disk, running'.version = new.version
      PROVE  RollbackInv'
  <2>1. system' = [system EXCEPT ![Here] = new] BY <1>7 DEF Change
  <2>2. \A d \in Disks : History(system'[d])
    BY <1>1, <1>7, <2>1 DEF RollbackInv
  <2>3. system'[Here].version = new.version BY <1>1, <1>2, <1>7, <2>1
  <2>4. Here' = Here BY <1>7 DEF Here
  <2>5. Current' BY <1>7, <2>3, <2>4 DEF Current
  <2>6. promise'.by \notin Rollbacks BY <1>2, <1>6, <1>7
  <2> QED BY <1>4, <2>2, <2>5, <2>6
<1>8. ASSUME OnInstalled, NEW s \in Snapshots(Here), NEW by \in Rollbacks,
             s.version <= running.version,
             by = "rollback" /\ Listed(Here, system[Here].journal)
               => s.version < running.version,
             SetDefault(s, by)
      PROVE  RollbackInv'
  <2>1. CASE UNCHANGED <<ivars, running, system, promise>> BY <1>3, <2>1
  <2>2. CASE /\ Change([system[Here] EXCEPT !.default = s.nr])
             /\ promise' = [by |-> by, disk |-> Here, version |-> s.version] /\ GoesDown
    <3> DEFINE old == system[Here]
               new == [old EXCEPT !.default = s.nr]
    <3>1. /\ new.snapshots = old.snapshots /\ new.taken = old.taken
          /\ new.journal = old.journal /\ new.version = old.version
      BY <1>2, <1>8 DEF System
    <3>2. system' = [system EXCEPT ![Here] = new] /\ running' = Down
      BY <2>2 DEF Change, GoesDown
    <3> HIDE DEF new
    <3>3. History(new) BY <1>2, <1>8, <3>1, SameHistory
    <3> HIDE DEF old
    <3>4. \A d \in Disks : History(system'[d]) BY <1>1, <3>2, <3>3 DEF RollbackInv
    <3>5. Current' BY <1>5, <3>2
    <3>6. PICK d \in Disks : d = Here BY <1>2, <1>8
    <3>7. /\ promise'.by = by /\ promise'.disk = d /\ promise'.version = s.version
          /\ system'[d] = new /\ system[d] = old
      BY <1>1, <2>2, <3>2, <3>6 DEF old
    <3>8. Listed(promise.disk, system[promise.disk].journal)'
            => Listed(Here, system[Here].journal)
      BY <3>1, <3>6, <3>7 DEF Listed, Snapshots
    <3>9. new.version = running.version BY <1>2, <1>8, <3>1 DEF old
    <3>10. Promised' BY <1>8, <3>2, <3>7, <3>8, <3>9 DEF Promised
    <3> QED BY <3>4, <3>5, <3>10 DEF RollbackInv
  <2> QED BY <1>8, <2>1, <2>2 DEF SetDefault
<1>9. CASE UNCHANGED rvars BY <1>3, <1>9 DEF rvars
<1>10. CASE Live(InstallerNext)
  <2>1. /\ running = LiveSystem /\ UNCHANGED <<running, promise>>
        /\ system' = [d \in Disks |-> IF content'[d].btrfs = "ready" THEN system[d]
                                      ELSE NewSystem]
    BY <1>10 DEF Live
  <2>2. \A d \in Disks : History(system'[d])
    BY <2>1, NewSystemHistory DEF RollbackInv
  <2>3. LiveSystem # Down BY DownIsNoDisk DEF Down, LiveSystem
  <2> QED BY <1>4, <1>5, <1>6, <2>1, <2>2, <2>3
<1>11. ASSUME NEW d \in Disks, BootDisk(d) PROVE RollbackInv'
  <2>1. /\ running' = [disk |-> d, version |-> system[d].version] /\ system' = system
        /\ promise' = NoPromise
    BY <1>11 DEF BootDisk, BootedVersion
  <2>2. running'.disk = d /\ running'.version = system[d].version BY <2>1
  <2>3. Current' BY <2>1, <2>2 DEF Current, Here
  <2>4. promise'.by \notin Rollbacks BY <2>1 DEF NoPromise, Rollbacks
  <2> QED BY <1>4, <2>1, <2>3, <2>4 DEF RollbackInv
<1>12. CASE BootLive
  <2>1. running' = LiveSystem /\ promise' = NoPromise /\ system' = system
    BY <1>12 DEF BootLive
  <2>2. promise'.by \notin Rollbacks BY <2>1 DEF NoPromise, Rollbacks
  <2> QED BY <1>4, <1>5, <2>1, <2>2 DEF RollbackInv
<1>13. CASE Restart
  BY <1>4, <1>5, <1>6, <1>13 DEF Restart, GoesDown, RollbackInv
<1>14. ASSUME NEW d \in Disks, AddMissing(d) PROVE RollbackInv'
  BY <1>3, <1>14 DEF AddMissing
<1>15. CASE TakeSnapshot
  <2>1. /\ OnInstalled /\ system[Here].taken < MaxSnapshots /\ Change(Taken(system[Here]))
        /\ running' = running /\ promise' = promise
    BY <1>15 DEF TakeSnapshot
  <2>2. History(Taken(system[Here])) /\ Taken(system[Here]).version = running.version
    BY <1>2, <2>1, TakenHistory, TakenFacts
  <2> QED BY <1>7, <2>1, <2>2
<1>16. CASE DeleteSnapshot
  <2>1. OnInstalled /\ running' = running /\ promise' = promise BY <1>16 DEF DeleteSnapshot
  <2>2. PICK i \in DOMAIN system[Here].snapshots :
          Change([system[Here] EXCEPT !.snapshots = RemoveAt(@, i)])
    BY <1>16 DEF DeleteSnapshot
  <2> QED BY <1>2, <1>7, <2>1, <2>2, DeletedHistory
<1>17. ASSUME NEW journaled \in BOOLEAN, Update(journaled) PROVE RollbackInv'
  <2> DEFINE s == system[Here]
             v == running.version + 1
             new == [Taken(s) EXCEPT !.version = v,
                                     !.journal = IF journaled THEN Taken(s).taken ELSE @]
  <2>1. /\ OnInstalled /\ s.taken < MaxSnapshots /\ promise' = promise
        /\ Change(new) /\ running' = [running EXCEPT !.version = @ + 1]
    BY <1>17 DEF Update
  <2>2. s \in System /\ History(s) /\ running.version = s.version BY <1>2, <2>1
  <2>3. v \in Nat /\ v = s.version + 1 BY <1>1, <2>2, RecoveryAssumption
  <2>4. running'.disk = running.disk /\ running'.version = v BY <1>2, <2>1
  <2> HIDE DEF s, v
  <2>5. History(new) BY <2>1, <2>2, <2>3, UpdatedHistory
  <2>6. new.version = v
    <3>1. Taken(s) \in System BY <2>1, <2>2, TakenFacts
    <3> QED BY <3>1 DEF System
  <2> HIDE DEF new
  <2> QED BY <1>7, <2>1, <2>4, <2>5, <2>6
<1>18. CASE BootPrevious
  <2>1. OnInstalled BY <1>18 DEF BootPrevious
  <2>2. PICK s \in Snapshots(Here) : SetDefault(s, "previous") BY <1>18 DEF BootPrevious
  <2>3. s.version <= running.version BY <1>2, <2>1 DEF History, Ordered, Snapshots
  <2>4. "previous" \in Rollbacks /\ "previous" # "rollback" BY DEF Rollbacks
  <2> QED BY <1>8, <2>1, <2>2, <2>3, <2>4
<1>19. CASE RollbackUpdate
  <2>1. OnInstalled /\ system[Here].snapshots # <<>> BY <1>19 DEF RollbackUpdate
  <2>2. PICK read \in BOOLEAN :
          SetDefault(RollbackTarget(Here, read),
                     IF read THEN "rollback" ELSE "unread rollback")
    BY <1>19 DEF RollbackUpdate
  <2> DEFINE t == RollbackTarget(Here, read)
  <2>3. /\ t \in Snapshots(Here) /\ t.version <= running.version
        /\ read /\ Listed(Here, system[Here].journal) => t.version < running.version
    BY <2>1, ChosenVersion
  <2> HIDE DEF t
  <2>4. CASE read
    <3>1. SetDefault(t, "rollback") /\ "rollback" \in Rollbacks
      BY <2>2, <2>4 DEF Rollbacks, t
    <3> QED BY <1>8, <2>1, <2>3, <2>4, <3>1
  <2>5. CASE ~read
    <3>1. /\ SetDefault(t, "unread rollback") /\ "unread rollback" \in Rollbacks
          /\ "unread rollback" # "rollback"
      BY <2>2, <2>5 DEF Rollbacks, t
    <3> QED BY <1>8, <2>1, <2>3, <3>1
  <2> QED BY <2>4, <2>5
<1>20. CASE Repair BY <1>3, <1>20 DEF Repair
<1>21. CASE EngineRollback
  <2>1. /\ running' = running /\ system' = system
        /\ promise' = [by |-> "engine", disk |-> Here, version |-> 0]
    BY <1>21 DEF EngineRollback
  <2>2. promise'.by \notin Rollbacks BY <2>1 DEF Rollbacks
  <2>3. Current' BY <2>1 DEF RollbackInv, Current, OnInstalled, Here
  <2> QED BY <1>4, <2>1, <2>2, <2>3 DEF RollbackInv
<1>22. CASE EngineBootPrevious
  <2>1. /\ running' = Down /\ system' = system
        /\ promise' = [by |-> "engine", disk |-> Here, version |-> 0]
    BY <1>22 DEF EngineBootPrevious, GoesDown
  <2>2. promise'.by \notin Rollbacks BY <2>1 DEF Rollbacks
  <2> QED BY <1>4, <1>5, <2>1, <2>2 DEF RollbackInv
<1> QED
  BY <1>9, <1>10, <1>11, <1>12, <1>13, <1>14, <1>15, <1>16, <1>17, <1>18, <1>19, <1>20,
     <1>21, <1>22
  DEF RecoveryNext, Boots, Lives, Recovers

LEMMA RollbackHolds == FairRecoverySpec => [](TypeInv /\ RollbackInv)
<1>1. RecoveryInit => TypeInv /\ RollbackInv BY TypesAtStart, RollbackAtStart
<1>2. TypeInv /\ RollbackInv /\ [RecoveryNext]_rvars => (TypeInv /\ RollbackInv)'
  BY TypesKept, RollbackKept
<1> QED BY <1>1, <1>2, PTL DEF FairRecoverySpec

\* Only a boot of a disk starts what lies on it.
LEMMA BootOfAPromise ==
  ASSUME TypeInv, RollbackInv, [RecoveryNext]_rvars,
         running = Down, promise.by \in Rollbacks, running'.disk = promise.disk
  PROVE  running'.version = system[promise.disk].version
<1>1. promise.disk \in Disks BY DEF RollbackInv, Promised
<1>2. Down.disk \notin Disks /\ LiveSystem.disk \notin Disks /\ Down # LiveSystem
  BY DownIsNoDisk, InstallerAssumption DEF Down, LiveSystem
<1>3. ~OnInstalled BY <1>2 DEF OnInstalled, Here
<1>4. running' # running /\ running' # Down /\ running' # LiveSystem BY <1>1, <1>2
<1>5. ~Live(InstallerNext) BY <1>2 DEF Live
<1>6. ~Lives BY <1>3 DEF Lives, TakeSnapshot, DeleteSnapshot, Update
<1>7. ~Recovers
  BY <1>3 DEF Recovers, BootPrevious, RollbackUpdate, Repair, EngineRollback,
              EngineBootPrevious
<1>8. \E d \in Disks : BootDisk(d)
  BY <1>4, <1>5, <1>6, <1>7 DEF RecoveryNext, Boots, BootLive, Restart, AddMissing, rvars
<1>9. PICK d \in Disks : BootDisk(d) BY <1>8
<1>10. running' = [disk |-> d, version |-> system[d].version]
  BY <1>9 DEF BootDisk, BootedVersion
<1> QED BY <1>10

(***************************************************************************)
(* Whatever snapshot recovery has made the default and announced           *)
(* (recovery/kairos_recovery.py:217-227, 371-378), and however updates,    *)
(* snapshots and rollbacks came before: the next boot of that disk starts  *)
(* no older system than the announced one, and after the rollback of a     *)
(* journaled update one that still has the update, since each entry names  *)
(* the subvolume (installer/kairos_installer.py:1930).                     *)
(***************************************************************************)
THEOREM RollbacksLeaveUpdates == FairRecoverySpec => RollbacksDoNotBoot
<1>1. ASSUME TypeInv, RollbackInv, [RecoveryNext]_rvars,
             running = Down, promise.by \in Rollbacks, running'.disk = promise.disk
      PROVE  /\ running'.version >= promise.version
             /\ promise.by = "rollback" /\ Listed(promise.disk, system[promise.disk].journal)
                  => running'.version > promise.version
  <2>1. running'.version = system[promise.disk].version BY <1>1, BootOfAPromise
  <2>2. /\ promise.disk \in Disks /\ promise.version <= system[promise.disk].version
        /\ promise.by = "rollback" /\ Listed(promise.disk, system[promise.disk].journal)
             => promise.version < system[promise.disk].version
    BY <1>1 DEF RollbackInv, Promised
  <2>3. promise.version \in Int /\ system[promise.disk].version \in Int
    <3>1. promise.version \in 0 .. MaxUpdates /\ system[promise.disk] \in System
      BY <1>1, <2>2 DEF TypeInv, RecoveryTypeOK
    <3> QED BY <3>1, SystemFields
  <2> QED BY <2>1, <2>2, <2>3
<1>2. TypeInv /\ RollbackInv /\ [RecoveryNext]_rvars =>
        [running = Down /\ promise.by \in Rollbacks /\ running'.disk = promise.disk
           => /\ running'.version >= promise.version
              /\ promise.by = "rollback" /\ Listed(promise.disk, system[promise.disk].journal)
                   => running'.version > promise.version]_rvars
  BY <1>1
<1> QED BY <1>2, RollbackHolds, PTL DEF FairRecoverySpec, RollbacksDoNotBoot

LEMMA OtherPromises ==
  ASSUME BootPrevious \/ EngineRollback \/ EngineBootPrevious
  PROVE  promise'.by \in {"previous", "engine"} \/ promise' = promise
<1>1. CASE BootPrevious
  <2>1. PICK s \in Snapshots(Here) : SetDefault(s, "previous") BY <1>1 DEF BootPrevious
  <2>2. CASE promise' = [by |-> "previous", disk |-> Here, version |-> s.version] BY <2>2
  <2>3. CASE promise' = promise BY <2>3
  <2> QED BY <2>1, <2>2, <2>3 DEF SetDefault
<1>2. CASE EngineRollback \/ EngineBootPrevious
  BY <1>2 DEF EngineRollback, EngineBootPrevious
<1> QED BY <1>1, <1>2

LEMMA RollbackChoice ==
  ASSUME TypeInv, RollbackInv, [RecoveryNext]_rvars,
         promise'.by \in {"rollback", "unread rollback"}, promise' # promise
  PROVE  IF promise'.by = "rollback" /\ Listed(Here, system[Here].journal)
         THEN promise'.version < running.version
         ELSE /\ promise'.version <= running.version
              /\ \A s \in Snapshots(Here) : s.version <= promise'.version
<1>1. CASE RollbackUpdate
  <2>1. OnInstalled /\ system[Here].snapshots # <<>> BY <1>1 DEF RollbackUpdate
  <2>2. PICK read \in BOOLEAN :
          SetDefault(RollbackTarget(Here, read),
                     IF read THEN "rollback" ELSE "unread rollback")
    BY <1>1 DEF RollbackUpdate
  <2> DEFINE t == RollbackTarget(Here, read)
  <2>3. /\ t.version <= running.version
        /\ IF read /\ Listed(Here, system[Here].journal) THEN t.version < running.version
           ELSE \A s \in Snapshots(Here) : s.version <= t.version
    BY <2>1, ChosenVersion
  <2>4. promise' = [by |-> IF read THEN "rollback" ELSE "unread rollback",
                    disk |-> Here, version |-> t.version]
    BY <2>2 DEF SetDefault
  <2> HIDE DEF t
  <2>5. promise'.version = t.version /\ (promise'.by = "rollback" <=> read) BY <2>4
  <2> QED BY <2>3, <2>5
<1>2. ASSUME promise' = promise \/ promise'.by \notin {"rollback", "unread rollback"}
      PROVE  FALSE
  BY <1>2
<1>3. NoPromise.by = "nobody" BY DEF NoPromise
<1>4. CASE UNCHANGED rvars BY <1>2, <1>4 DEF rvars
<1>5. CASE Live(InstallerNext) BY <1>2, <1>5 DEF Live
<1>6. CASE Boots
  <2>1. promise' = promise \/ promise' = NoPromise
    BY <1>6 DEF Boots, BootDisk, BootLive, Restart, AddMissing
  <2>2. promise' = promise \/ promise'.by = "nobody" BY <2>1, <1>3
  <2> QED BY <2>2, <1>2
<1>7. CASE Lives BY <1>2, <1>7 DEF Lives, TakeSnapshot, DeleteSnapshot, Update
<1>8. CASE BootPrevious \/ EngineRollback \/ EngineBootPrevious
  <2>1. promise'.by \in {"previous", "engine"} \/ promise' = promise
    BY <1>8, OtherPromises
  <2> QED BY <2>1, <1>2
<1>9. CASE Repair BY <1>2, <1>9 DEF Repair
<1> QED BY <1>1, <1>4, <1>5, <1>6, <1>7, <1>8, <1>9 DEF RecoveryNext, Recovers

(***************************************************************************)
(* "Rollback Update" (recovery/kairos_recovery.py:326-379) chooses a       *)
(* snapshot without the last journaled update while the journal can be     *)
(* read (:335-342) and the one taken before it is listed, whatever was     *)
(* taken and deleted in between; otherwise it takes the newest of the      *)
(* list, be it of the system that runs.                                    *)
(***************************************************************************)
THEOREM RollbacksAreToThePast == FairRecoverySpec => RollbacksChooseThePast
<1>1. TypeInv /\ RollbackInv /\ [RecoveryNext]_rvars =>
        [promise'.by \in {"rollback", "unread rollback"} /\ promise' # promise =>
           IF promise'.by = "rollback" /\ Listed(Here, system[Here].journal)
           THEN promise'.version < running.version
           ELSE /\ promise'.version <= running.version
                /\ \A s \in Snapshots(Here) : s.version <= promise'.version]_rvars
  BY RollbackChoice
<1> QED BY <1>1, RollbackHolds, PTL DEF FairRecoverySpec, RollbacksChooseThePast

----------------------------------------------------------------------------
(* Consent *)

\* What is open was open before, or is the disk the user agreed to.
Allowed(s, d) == d = NoDisk \/ d \in s.leftover \/ (d = s.disk /\ s.typed)
LayersAllowed(s, m) ==
  \A i \in DOMAIN m :
    Allowed(s, m[i].disk) /\ Allowed(s, m[i].efi) /\ Allowed(s, m[i].boot)

ConsentInv ==
  session.stage \notin {"off", "exited"} =>
    /\ Allowed(session, mapper) /\ LayersAllowed(session, mnt)
    /\ session.stage \in {"run", "ask"} =>
         session.dry \/ session.disk = NoDisk \/ session.typed

DiskDoes == {"zap", "new partitions", "mkfs efi", "mkfs boot", "luksFormat", "luksOpen",
             "mkfs root", "create subvolumes", "mount top", "mount root",
             "mount subvolumes", "mount efi", "mount boot", "umount below", "umount",
             "luksClose"}

LEMMA DiskCommandHead ==
  ASSUME DiskCommand
  PROVE  /\ session.stage = "run" /\ ~session.dry /\ session.queue # <<>>
         /\ Head(session.queue).do \in DiskDoes /\ Possible(Head(session.queue))
         /\ Proceed /\ Undisturbed /\ bare' = bare
<1>1. ASSUME NEW do \in DiskDoes, Performs(do), Proceed, Undisturbed, bare' = bare
      PROVE  /\ session.stage = "run" /\ ~session.dry /\ session.queue # <<>>
             /\ Head(session.queue).do \in DiskDoes /\ Possible(Head(session.queue))
             /\ Proceed /\ Undisturbed /\ bare' = bare
  BY <1>1 DEF Performs
<1>2. \E do \in DiskDoes : Performs(do) /\ Proceed /\ Undisturbed /\ bare' = bare
  <2>1. CASE Zap \/ NewPartitions \/ MkfsEfi \/ MkfsBoot
    BY <2>1 DEF Zap, NewPartitions, MkfsEfi, MkfsBoot, DiskDoes
  <2>2. CASE LuksFormat \/ LuksOpen \/ MkfsRoot \/ CreateSubvolumes
    BY <2>2 DEF LuksFormat, LuksOpen, MkfsRoot, CreateSubvolumes, DiskDoes
  <2>3. CASE MountTop \/ MountRoot \/ MountSubvolumes \/ MountEfi
    BY <2>3 DEF MountTop, MountRoot, MountSubvolumes, MountEfi, DiskDoes
  <2>4. CASE MountBoot \/ UmountBelow \/ Umount \/ LuksClose
    BY <2>4 DEF MountBoot, UmountBelow, Umount, LuksClose, DiskDoes
  <2> QED BY <2>1, <2>2, <2>3, <2>4 DEF DiskCommand
<1> QED BY <1>1, <1>2

\* Which disks a command can reach, and what it can open.
LEMMA DiskCommandReach ==
  ASSUME InstallInv, DiskCommand
  PROVE  /\ \A d \in Disks : content'[d] # content[d] => d \in {Disk, RootDevice, Top.disk}
         /\ mapper' \in {mapper, Disk, NoDisk}
         /\ \/ mnt' = mnt
            \/ \E l \in Layer : /\ l.disk = RootDevice /\ l.efi = NoDisk /\ l.boot = NoDisk
                                /\ mnt' = Append(mnt, l)
            \/ IsMounted /\ mnt' = SubSeq(mnt, 1, Len(mnt) - 1)
            \/ \E l \in Layer : /\ l.disk = Top.disk /\ l.efi \in {Top.efi, Disk, NoDisk}
                                /\ l.boot \in {Top.boot, Disk, NoDisk}
                                /\ mnt' = [mnt EXCEPT ![Len(mnt)] = l]
<1>1. content \in [Disks -> Content] /\ LayersOK(mnt) /\ session \in Session
      /\ mapper \in Disks \cup {NoDisk}
  BY DEF InstallInv, InstallerTypeOK
<1>2. Disk \in Disks \cup {NoDisk} /\ RootDevice \in Disks \cup {NoDisk} /\ Top \in Layer
  BY <1>1, SessionFields, TopFacts DEF Disk, RootDevice
<1>3. ASSUME NEW d, NEW new, Put(d, new), d \in {Disk, RootDevice, Top.disk}
      PROVE  \A x \in Disks : content'[x] # content[x] => x \in {Disk, RootDevice, Top.disk}
  BY <1>1, <1>3 DEF Put
<1>4. CASE Zap
  BY <1>4, <1>3 DEF Zap
<1>5. CASE NewPartitions
  BY <1>5, <1>3 DEF NewPartitions
<1>6. CASE MkfsEfi
  BY <1>6, <1>3 DEF MkfsEfi
<1>7. CASE MkfsBoot
  BY <1>7, <1>3 DEF MkfsBoot
<1>8. CASE LuksFormat
  BY <1>8, <1>3 DEF LuksFormat
<1>9. CASE LuksOpen
  BY <1>9 DEF LuksOpen
<1>10. CASE MkfsRoot
  BY <1>10, <1>3 DEF MkfsRoot
<1>11. CASE CreateSubvolumes
  BY <1>11, <1>3 DEF CreateSubvolumes
<1>12. ASSUME NEW subvolume \in Subvolumes, Push(subvolume)
       PROVE  \E l \in Layer : /\ l.disk = RootDevice /\ l.efi = NoDisk /\ l.boot = NoDisk
                               /\ mnt' = Append(mnt, l)
  <2> DEFINE l == [disk |-> RootDevice, subvolume |-> subvolume,
                   efi |-> NoDisk, boot |-> NoDisk]
  <2>1. l \in Layer /\ l.disk = RootDevice /\ l.efi = NoDisk /\ l.boot = NoDisk
    BY <1>2 DEF Layer
  <2>2. mnt' = Append(mnt, l) BY <1>12 DEF Push
  <2> HIDE DEF l
  <2> QED BY <2>1, <2>2
<1>13. CASE MountTop
  BY <1>12, <1>13 DEF MountTop, Subvolumes
<1>14. CASE MountRoot
  BY <1>12, <1>14 DEF MountRoot, Subvolumes
<1>15. CASE MountSubvolumes
  BY <1>15 DEF MountSubvolumes
<1>16. ASSUME NEW l \in Layer, l.disk = Top.disk, l.efi \in {Top.efi, Disk, NoDisk},
              l.boot \in {Top.boot, Disk, NoDisk}, SetTop(l)
       PROVE  \E x \in Layer : /\ x.disk = Top.disk /\ x.efi \in {Top.efi, Disk, NoDisk}
                               /\ x.boot \in {Top.boot, Disk, NoDisk}
                               /\ mnt' = [mnt EXCEPT ![Len(mnt)] = x]
  BY <1>16 DEF SetTop
<1>17. CASE MountEfi
  <2> DEFINE l == [Top EXCEPT !.efi = Disk]
  <2>1. l \in Layer /\ l.disk = Top.disk /\ l.efi = Disk /\ l.boot = Top.boot
    BY <1>2 DEF Layer
  <2>2. SetTop(l) /\ content' = content /\ mapper' = mapper BY <1>17 DEF MountEfi
  <2> HIDE DEF l
  <2> QED BY <2>1, <2>2, <1>16
<1>18. CASE MountBoot
  <2> DEFINE l == [Top EXCEPT !.boot = Disk]
  <2>1. l \in Layer /\ l.disk = Top.disk /\ l.efi = Top.efi /\ l.boot = Disk
    BY <1>2 DEF Layer
  <2>2. SetTop(l) /\ content' = content /\ mapper' = mapper BY <1>18 DEF MountBoot
  <2> HIDE DEF l
  <2> QED BY <2>1, <2>2, <1>16
<1>19. CASE UmountBelow
  <2> DEFINE l == [Top EXCEPT !.efi = NoDisk, !.boot = NoDisk]
  <2>1. l \in Layer /\ l.disk = Top.disk /\ l.efi = NoDisk /\ l.boot = NoDisk
    BY <1>2 DEF Layer
  <2>2. SetTop(l) /\ content' = content /\ mapper' = mapper BY <1>19 DEF UmountBelow
  <2> HIDE DEF l
  <2> QED BY <2>1, <2>2, <1>16
<1>20. CASE Umount
  BY <1>20 DEF Umount, Performs, Possible
<1>21. CASE LuksClose
  BY <1>21 DEF LuksClose
<1> QED
  BY <1>4, <1>5, <1>6, <1>7, <1>8, <1>9, <1>10, <1>11, <1>13, <1>14, <1>15, <1>17, <1>18,
     <1>19, <1>20, <1>21 DEF DiskCommand

LEMMA StoreReach ==
  ASSUME InstallInv, NEW f, Store(f)
  PROVE  \A d \in Disks : content'[d] # content[d] => d \in {Top.efi, Top.disk}
<1>1. content \in [Disks -> Content] BY DEF InstallInv, InstallerTypeOK
<1>2. ASSUME NEW d, NEW new, Put(d, new), d \in {Top.efi, Top.disk}
      PROVE  \A x \in Disks : content'[x] # content[x] => x \in {Top.efi, Top.disk}
  BY <1>1, <1>2 DEF Put
<1> QED BY <1>2 DEF Store

LEMMA PacstrapReach ==
  ASSUME InstallInv, Pacstrap
  PROVE  \A d \in Disks : content'[d] # content[d] => d \in {Top.boot, Top.disk}
<1>1. ASSUME NEW d \in Disks, d \notin {Top.boot, Top.disk} PROVE content'[d] = content[d]
  <2>1. content'[d] = [content[d] EXCEPT !.files = @, !.boot = @]
    BY <1>1 DEF Pacstrap
  <2>2. content[d] \in Content BY DEF InstallInv, InstallerTypeOK
  <2> DEFINE r == content[d]
  <2> HIDE DEF r
  <2>3. r \in Content => [r EXCEPT !.files = @, !.boot = @] = r BY DEF Content
  <2> QED BY <2>1, <2>2, <2>3 DEF r
<1> QED BY <1>1

LEMMA AllowedLayers ==
  ASSUME NEW s, NEW m, LayersOK(m), LayersAllowed(s, m), NEW l \in Layer,
         Allowed(s, l.disk), Allowed(s, l.efi), Allowed(s, l.boot)
  PROVE  /\ LayersAllowed(s, Append(m, l))
         /\ LayersAllowed(s, [m EXCEPT ![Len(m)] = l])
         /\ LayersAllowed(s, SubSeq(m, 1, Len(m) - 1))
<1>1. /\ m \in Seq(Layer) /\ Len(m) \in Nat /\ Len(m) >= 1 /\ DOMAIN m = 1 .. Len(m)
      /\ \A i \in 1 .. Len(m) : m[i] \in Layer
  BY LenProperties DEF LayersOK
<1>2. LayersAllowed(s, Append(m, l))
  <2> DEFINE a == Append(m, l)
  <2>1. /\ a \in Seq(Layer) /\ Len(a) = Len(m) + 1 /\ a[Len(m) + 1] = l
        /\ \A i \in 1 .. Len(m) : a[i] = m[i]
    BY <1>1, AppendProperties
  <2>2. DOMAIN a = 1 .. Len(m) + 1 BY <2>1, LenProperties
  <2> HIDE DEF a
  <2>3. ASSUME NEW i \in DOMAIN a
        PROVE  Allowed(s, a[i].disk) /\ Allowed(s, a[i].efi) /\ Allowed(s, a[i].boot)
    <3>1. CASE i = Len(m) + 1 BY <2>1, <3>1
    <3>2. CASE i \in 1 .. Len(m) BY <1>1, <2>1, <3>2 DEF LayersAllowed
    <3>3. i = Len(m) + 1 \/ i \in 1 .. Len(m) BY <1>1, <2>2
    <3> QED BY <3>1, <3>2, <3>3
  <2>4. LayersAllowed(s, a) BY <2>3 DEF LayersAllowed
  <2> QED BY <2>4 DEF a
<1>3. LayersAllowed(s, [m EXCEPT ![Len(m)] = l])
  <2> DEFINE a == [m EXCEPT ![Len(m)] = l]
  <2>1. DOMAIN a = DOMAIN m /\ \A i \in DOMAIN m : a[i] = IF i = Len(m) THEN l ELSE m[i]
    BY <1>1
  <2> HIDE DEF a
  <2>2. LayersAllowed(s, a) BY <2>1 DEF LayersAllowed
  <2> QED BY <2>2 DEF a
<1>4. LayersAllowed(s, SubSeq(m, 1, Len(m) - 1))
  <2> DEFINE a == SubSeq(m, 1, Len(m) - 1)
  <2>1. \A i \in 1 .. Len(m) - 1 : m[i] \in Layer BY <1>1
  <2>2. /\ a \in Seq(Layer) /\ Len(a) = Len(m) - 1
        /\ \A i \in 1 .. Len(m) - 1 : a[i] = m[i]
    BY <1>1, <2>1, SubSeqProperties
  <2>3. DOMAIN a = 1 .. Len(m) - 1 BY <2>2, LenProperties
  <2> HIDE DEF a
  <2>4. LayersAllowed(s, a) BY <1>1, <2>2, <2>3 DEF LayersAllowed
  <2> QED BY <2>4 DEF a
<1> QED BY <1>2, <1>3, <1>4

\* In a session that is not dry, a command reaches only what is allowed.
LEMMA AllowedDevices ==
  ASSUME InstallInv, ConsentInv, session.stage = "run", ~session.dry
  PROVE  /\ Allowed(session, Disk) /\ Allowed(session, RootDevice)
         /\ Allowed(session, mapper) /\ LayersAllowed(session, mnt)
         /\ Allowed(session, Top.disk) /\ Allowed(session, Top.efi)
         /\ Allowed(session, Top.boot)
<1>1. /\ Allowed(session, mapper) /\ LayersAllowed(session, mnt)
      /\ session.disk = NoDisk \/ session.typed
  BY DEF ConsentInv
<1>2. Allowed(session, Disk) BY <1>1 DEF Allowed, Disk
<1>3. Allowed(session, RootDevice) BY <1>1, <1>2 DEF RootDevice
<1>4. LayersOK(mnt) BY DEF InstallInv
<1>5. Len(mnt) \in DOMAIN mnt /\ Top = mnt[Len(mnt)]
  <2>1. mnt \in Seq(Layer) /\ Len(mnt) >= 1 BY <1>4 DEF LayersOK
  <2> QED BY <2>1, <1>4, TopFacts, LenProperties
<1> QED BY <1>1, <1>2, <1>3, <1>5 DEF LayersAllowed

\* Once it runs, a session keeps its choices.
LEMMA ChoicesKept ==
  ASSUME InstallInv,
         \/ NoPackageManager \/ DryCommand \/ HealthCheck \/ FailureIgnored \/ FailureRaised
         \/ BeginStep \/ Finish \/ Continue \/ GiveUp \/ Interrupt
  PROVE  /\ UNCHANGED machine
         /\ session'.disk = session.disk /\ session'.encrypt = session.encrypt
         /\ session'.dry = session.dry /\ session'.typed = session.typed
         /\ session'.fresh = session.fresh /\ session'.leftover = session.leftover
         /\ session.stage \in {"run", "ask"} \/ session'.stage = "exited"
<1> DEFINE Same(s) ==
             /\ s.disk = session.disk /\ s.encrypt = session.encrypt
             /\ s.dry = session.dry /\ s.typed = session.typed
             /\ s.fresh = session.fresh /\ s.leftover = session.leftover
<1>1. session \in Session BY DEF InstallInv, InstallerTypeOK
<1>2. CASE NoPackageManager
  <2>1. session' = [session EXCEPT !.queue = Tail(@), !.undisturbed = FALSE]
        /\ UNCHANGED machine /\ session.stage = "run"
    BY <1>2 DEF NoPackageManager, Performs
  <2>2. Same(session') BY <1>1, <2>1 DEF Session
  <2> QED BY <2>1, <2>2
<1>3. CASE DryCommand
  <2>1. session' = [session EXCEPT !.queue = Tail(@)] /\ UNCHANGED machine
        /\ session.stage = "run"
    BY <1>3 DEF DryCommand, Proceed
  <2>2. Same(session') BY <1>1, <2>1 DEF Session
  <2> QED BY <2>1, <2>2
<1>4. CASE HealthCheck
  <2>1. session' = [session EXCEPT !.queue = Tail(@),
                                   !.code = IF HealthFailures THEN 2 ELSE 0]
        /\ UNCHANGED machine /\ session.stage = "run"
    BY <1>4 DEF HealthCheck
  <2>2. Same(session') BY <1>1, <2>1 DEF Session
  <2> QED BY <2>1, <2>2
<1>5. CASE FailureIgnored
  <2> DEFINE s == [session EXCEPT !.queue = Tail(@)]
  <2>1. session' = [s EXCEPT !.undisturbed = @ /\ failures' = failures]
        /\ UNCHANGED machine /\ session.stage = "run"
    BY <1>5 DEF FailureIgnored, Disturbed, Fails
  <2>2. Same(s) /\ DOMAIN s = DOMAIN session BY <1>1 DEF Session
  <2> HIDE DEF s
  <2>3. Same(session') BY <1>1, <2>1, <2>2 DEF Session
  <2> QED BY <2>1, <2>3
<1>6. CASE FailureRaised
  <2> DEFINE stage == IF session.step <= Len(InstallSteps) THEN "ask" ELSE "exited"
             s == [session EXCEPT !.queue = <<>>, !.stage = stage, !.code = 1]
  <2>1. session' = [s EXCEPT !.undisturbed = @ /\ failures' = failures]
        /\ UNCHANGED machine /\ session.stage = "run"
    BY <1>6 DEF FailureRaised, Disturbed, Fails
  <2> HIDE DEF stage
  <2>2. Same(s) /\ DOMAIN s = DOMAIN session BY <1>1 DEF Session
  <2> HIDE DEF s
  <2>3. Same(session') BY <1>1, <2>1, <2>2 DEF Session
  <2> QED BY <2>1, <2>3
<1>7. CASE BeginStep
  <2> DEFINE q == CommandsOf(Program[session.step + 1], session)
  <2>1. session' = [session EXCEPT !.step = @ + 1, !.queue = q]
        /\ UNCHANGED machine /\ session.stage = "run"
    BY <1>7 DEF BeginStep, AtEndOfStep
  <2> HIDE DEF q
  <2>2. Same(session') BY <1>1, <2>1 DEF Session
  <2> QED BY <2>1, <2>2
<1>8. CASE Finish \/ GiveUp
  <2>1. session' = [session EXCEPT !.stage = "exited"] /\ UNCHANGED machine
    BY <1>8 DEF Finish, GiveUp
  <2>2. Same(session') /\ session'.stage = "exited" BY <1>1, <2>1 DEF Session
  <2> QED BY <2>1, <2>2
<1>9. CASE Continue
  <2>1. session' = [session EXCEPT !.stage = "run", !.code = 0] /\ UNCHANGED machine
        /\ session.stage = "ask"
    BY <1>9 DEF Continue
  <2>2. Same(session') BY <1>1, <2>1 DEF Session
  <2> QED BY <2>1, <2>2
<1>10. CASE Interrupt
  <2>1. session' = [session EXCEPT !.stage = "exited", !.code = 130, !.queue = <<>>]
        /\ UNCHANGED machine
    BY <1>10 DEF Interrupt
  <2>2. Same(session') /\ session'.stage = "exited" BY <1>1, <2>1 DEF Session
  <2> QED BY <2>1, <2>2
<1> QED BY <1>2, <1>3, <1>4, <1>5, <1>6, <1>7, <1>8, <1>9, <1>10

LEMMA AllowedStays ==
  ASSUME NEW s, NEW t, t.leftover = s.leftover,
         ~s.typed \/ (t.disk = s.disk /\ (s.typed => t.typed))
  PROVE  /\ \A d : Allowed(s, d) => Allowed(t, d)
         /\ \A m : LayersAllowed(s, m) => LayersAllowed(t, m)
<1>1. \A d : Allowed(s, d) => Allowed(t, d) BY DEF Allowed
<1>2. \A m : LayersAllowed(s, m) => LayersAllowed(t, m) BY <1>1 DEF LayersAllowed
<1> QED BY <1>1, <1>2

LEMMA SessionConsent ==
  ASSUME InstallInv, ConsentInv,
         \/ \E dry, auto \in BOOLEAN : Start(dry, auto)
         \/ \E d \in Disks \cup {NoDisk}, encrypt \in BOOLEAN : Answer(d, encrypt)
         \/ UnknownProfile \/ Confirm \/ Abort \/ NoPackageManager
         \/ DryCommand \/ HealthCheck \/ FailureIgnored \/ FailureRaised
         \/ BeginStep \/ Finish \/ Continue \/ GiveUp \/ Interrupt
  PROVE  ConsentInv'
<1>1. session \in Session /\ Placed BY DEF InstallInv, InstallerTypeOK
<1>2. ASSUME session.stage \notin {"off", "exited"}, UNCHANGED machine,
             session'.leftover = session.leftover,
             ~session.typed \/ (session'.disk = session.disk /\ session'.typed = session.typed),
             session'.stage \in {"run", "ask"} =>
               session'.dry \/ session'.disk = NoDisk \/ session'.typed
      PROVE  ConsentInv'
  <2>1. Allowed(session, mapper) /\ LayersAllowed(session, mnt) BY <1>2 DEF ConsentInv
  <2>2. mapper' = mapper /\ mnt' = mnt BY <1>2 DEF machine
  <2>3. /\ \A d : Allowed(session, d) => Allowed(session', d)
        /\ \A m : LayersAllowed(session, m) => LayersAllowed(session', m)
    <3> DEFINE s == session
               t == session'
    <3>1. t.leftover = s.leftover /\ (~s.typed \/ (t.disk = s.disk /\ (s.typed => t.typed)))
      BY <1>2
    <3> HIDE DEF s, t
    <3>2. /\ \A d : Allowed(s, d) => Allowed(t, d)
          /\ \A m : LayersAllowed(s, m) => LayersAllowed(t, m)
      BY <3>1, AllowedStays
    <3> QED BY <3>2 DEF s, t
  <2>4. Allowed(session', mapper') /\ LayersAllowed(session', mnt') BY <2>1, <2>2, <2>3
  <2> QED BY <2>4, <1>2 DEF ConsentInv
<1>3. ASSUME NEW dry \in BOOLEAN, NEW auto \in BOOLEAN, Start(dry, auto) PROVE ConsentInv'
  <2> DEFINE open == OpenDisks
             clean == OpenDisks = {} /\ bare = {}
  <2>1. /\ session' = [NoSession EXCEPT
             !.stage = IF auto THEN "run" ELSE "questions",
             !.dry = dry \/ auto, !.encrypt = ~auto, !.fresh = clean, !.leftover = open]
        /\ UNCHANGED machine
    BY <1>3 DEF Start
  <2>2. /\ mapper \in open \cup {NoDisk}
        /\ \A i \in DOMAIN mnt :
             mnt[i].disk \in open \cup {NoDisk} /\ mnt[i].efi \in open \cup {NoDisk}
             /\ mnt[i].boot \in open \cup {NoDisk}
    BY DEF OpenDisks, MountedDisks
  <2> HIDE DEF open, clean
  <2>3. /\ session'.leftover = open
        /\ session'.stage \in {"run", "ask"} => session'.dry
    BY <2>1 DEF NoSession
  <2>4. Allowed(session', mapper) /\ LayersAllowed(session', mnt)
    BY <2>2, <2>3 DEF Allowed, LayersAllowed
  <2>5. mapper' = mapper /\ mnt' = mnt BY <2>1 DEF machine
  <2>6. Allowed(session', mapper') /\ LayersAllowed(session', mnt') BY <2>4, <2>5
  <2> QED BY <2>3, <2>6 DEF ConsentInv
<1>4. ASSUME NEW d \in Disks \cup {NoDisk}, NEW encrypt \in BOOLEAN, Answer(d, encrypt)
      PROVE  ConsentInv'
  <2>1. /\ session' = [session EXCEPT !.stage = "confirm", !.disk = d, !.encrypt = encrypt]
        /\ session.stage = "questions" /\ UNCHANGED machine
    BY <1>4 DEF Answer
  <2>2. session'.leftover = session.leftover /\ session'.stage = "confirm" /\ ~session.typed
    BY <1>1, <2>1 DEF Session, Placed
  <2> QED BY <1>2, <2>1, <2>2
<1>5. CASE UnknownProfile \/ Abort
  <2>1. session'.stage = "exited" BY <1>1, <1>5 DEF UnknownProfile, Abort, Session
  <2> QED BY <2>1 DEF ConsentInv
<1>6. CASE Confirm
  <2> DEFINE typed == Disk # NoDisk /\ ~session.dry
  <2>1. /\ session' = [session EXCEPT !.stage = "run", !.typed = typed]
        /\ session.stage = "confirm" /\ UNCHANGED machine
    BY <1>6 DEF Confirm
  <2>2. typed \in BOOLEAN /\ (typed \/ session.dry \/ session.disk = NoDisk) BY DEF Disk
  <2> HIDE DEF typed
  <2>3. /\ session'.leftover = session.leftover /\ ~session.typed
        /\ session'.dry = session.dry /\ session'.disk = session.disk /\ session'.typed = typed
    BY <1>1, <2>1 DEF Session, Placed
  <2> QED BY <1>2, <2>1, <2>2, <2>3
<1>7. CASE \/ NoPackageManager \/ DryCommand \/ HealthCheck \/ FailureIgnored \/ FailureRaised
           \/ BeginStep \/ Finish \/ Continue \/ GiveUp \/ Interrupt
  <2>1. CASE session'.stage = "exited" BY <2>1 DEF ConsentInv
  <2>2. CASE session'.stage # "exited"
    <3>1. /\ UNCHANGED machine /\ session'.disk = session.disk
          /\ session'.dry = session.dry /\ session'.typed = session.typed
          /\ session'.leftover = session.leftover /\ session.stage \in {"run", "ask"}
      BY <1>7, <2>2, ChoicesKept
    <3>2. session.dry \/ session.disk = NoDisk \/ session.typed BY <3>1 DEF ConsentInv
    <3> QED BY <1>2, <3>1, <3>2
  <2> QED BY <2>1, <2>2
<1> QED BY <1>3, <1>4, <1>5, <1>6, <1>7

LEMMA CommandConsent ==
  ASSUME InstallInv, ConsentInv, DiskCommand \/ WriteFile \/ Pacstrap
  PROVE  ConsentInv'
<1>1. /\ session.stage = "run" /\ ~session.dry /\ session.queue # <<>> /\ Proceed
  BY DiskCommandHead DEF WriteFile, Pacstrap, Performs
<1>2. /\ session'.stage = "run" /\ session'.leftover = session.leftover
      /\ session'.disk = session.disk /\ session'.typed = session.typed
      /\ session'.dry = session.dry
  BY <1>1, ProceedFacts DEF Proceed
<1>3. Allowed(session, mapper') /\ LayersAllowed(session, mnt')
  <2>1. CASE DiskCommand
    <3>1. /\ Allowed(session, Disk) /\ Allowed(session, RootDevice) /\ Allowed(session, mapper)
          /\ LayersAllowed(session, mnt) /\ Allowed(session, Top.disk)
          /\ Allowed(session, Top.efi) /\ Allowed(session, Top.boot)
          /\ Allowed(session, NoDisk) /\ LayersOK(mnt)
      BY <1>1, AllowedDevices DEF Allowed, InstallInv
    <3>2. mapper' \in {mapper, Disk, NoDisk} BY <2>1, DiskCommandReach
    <3>3. Allowed(session, mapper') BY <3>1, <3>2
    <3>4. CASE mnt' = mnt BY <3>1, <3>3, <3>4
    <3>5. CASE IsMounted /\ mnt' = SubSeq(mnt, 1, Len(mnt) - 1)
      <4>1. Top \in Layer BY <3>1, TopFacts
      <4> QED BY <3>1, <3>3, <3>5, <4>1, AllowedLayers
    <3>6. ASSUME NEW l \in Layer, l.disk = RootDevice, l.efi = NoDisk, l.boot = NoDisk,
                 mnt' = Append(mnt, l)
          PROVE  LayersAllowed(session, mnt')
      BY <3>1, <3>6, AllowedLayers
    <3>7. ASSUME NEW l \in Layer, l.disk = Top.disk, l.efi \in {Top.efi, Disk, NoDisk},
                 l.boot \in {Top.boot, Disk, NoDisk}, mnt' = [mnt EXCEPT ![Len(mnt)] = l]
          PROVE  LayersAllowed(session, mnt')
      <4>1. Allowed(session, l.disk) /\ Allowed(session, l.efi) /\ Allowed(session, l.boot)
        BY <3>1, <3>7
      <4> QED BY <3>1, <3>7, <4>1, AllowedLayers
    <3> QED BY <2>1, <3>3, <3>4, <3>5, <3>6, <3>7, DiskCommandReach
  <2>2. CASE WriteFile \/ Pacstrap
    <3>1. mapper' = mapper /\ mnt' = mnt BY <2>2 DEF WriteFile, Pacstrap
    <3>2. Allowed(session, mapper) /\ LayersAllowed(session, mnt) BY <1>1 DEF ConsentInv
    <3> QED BY <3>1, <3>2
  <2> QED BY <2>1, <2>2
<1>4. Allowed(session', mapper') /\ LayersAllowed(session', mnt')
  BY <1>2, <1>3 DEF Allowed, LayersAllowed
<1>5. session.dry \/ session.disk = NoDisk \/ session.typed BY <1>1 DEF ConsentInv
<1> QED BY <1>2, <1>4, <1>5 DEF ConsentInv

LEMMA ConsentKept ==
  ASSUME TypeInv, ConsentInv, [RecoveryNext]_rvars PROVE ConsentInv'
<1>1. InstallInv BY DEF TypeInv
<1>2. CASE UNCHANGED <<mapper, mnt, session>>
  BY <1>2 DEF ConsentInv, Allowed, LayersAllowed
<1>3. CASE GoesDown
  <2>1. session'.stage = "off" BY <1>1, <1>3, GoesDownTypes
  <2> QED BY <2>1 DEF ConsentInv
<1>4. CASE InstallerNext
  BY <1>1, <1>4, SessionConsent, CommandConsent DEF InstallerNext, Work, FileCommand
<1>5. InstallerNext \/ GoesDown \/ UNCHANGED <<mapper, mnt, session>>
  BY DEF RecoveryNext, Live, Boots, Lives, Recovers, BootLive, BootDisk, Restart, TakeSnapshot,
         DeleteSnapshot, Update, BootPrevious, RollbackUpdate, SetDefault, Repair, AddMissing,
         EngineRollback, EngineBootPrevious, rvars, ivars, machine
<1> QED BY <1>2, <1>3, <1>4, <1>5

\* What a step of a session does to the disks.
LEMMA ConsentStep ==
  ASSUME TypeInv, ConsentInv, [RecoveryNext]_rvars, session.stage \notin {"off", "exited"}
  PROVE  /\ \A d \in Disks : content'[d] # content[d] =>
              (d = session.disk /\ session.typed) \/ d \in session.leftover
         /\ session.dry => UNCHANGED <<content, mapper, mnt, bare>>
<1>1. InstallInv /\ running = LiveSystem /\ ~OnInstalled
  BY RunningFacts DEF TypeInv
<1>2. running # Down BY <1>1, DownIsNoDisk DEF LiveSystem, Down
<1>3. CASE DiskCommand \/ WriteFile \/ Pacstrap
  <2>1. session.stage = "run" /\ ~session.dry
    BY <1>3, DiskCommandHead DEF WriteFile, Pacstrap, Performs
  <2>2. /\ Allowed(session, Disk) /\ Allowed(session, RootDevice)
        /\ Allowed(session, Top.disk) /\ Allowed(session, Top.efi)
        /\ Allowed(session, Top.boot)
    BY <1>1, <2>1, AllowedDevices
  <2>3. \A d \in Disks : content'[d] # content[d] =>
          d \in {Disk, RootDevice, Top.disk, Top.efi, Top.boot}
    BY <1>1, <1>3, DiskCommandReach, StoreReach, PacstrapReach DEF WriteFile
  <2>4. \A d \in Disks : d # NoDisk BY InstallerAssumption
  <2> QED BY <2>1, <2>2, <2>3, <2>4 DEF Allowed
<1>4. CASE UNCHANGED <<content, mapper, mnt, bare>> BY <1>4
<1>5. UNCHANGED rvars \/ Live(InstallerNext)
  BY <1>1, <1>2
  DEF RecoveryNext, Boots, Lives, Recovers, BootLive, BootDisk, Restart, TakeSnapshot,
      DeleteSnapshot, Update, BootPrevious, RollbackUpdate, Repair, AddMissing,
      EngineRollback, EngineBootPrevious
<1>6. CASE UNCHANGED rvars BY <1>4, <1>6 DEF rvars, ivars, machine
<1>7. CASE Live(InstallerNext)
  <2>1. \/ DiskCommand \/ WriteFile \/ Pacstrap
        \/ UNCHANGED machine
    BY <1>1, <1>7, ChoicesKept
    DEF Live, InstallerNext, Work, FileCommand, Start, Answer, UnknownProfile, Confirm, Abort
  <2> QED BY <1>3, <1>4, <2>1 DEF machine
<1> QED BY <1>5, <1>6, <1>7

LEMMA ConsentHolds == FairRecoverySpec => [](TypeInv /\ ConsentInv)
<1>1. RecoveryInit => ConsentInv
  BY DEF RecoveryInit, InstallerInit, ConsentInv, NoSession
<1>2. RecoveryInit => TypeInv /\ ConsentInv BY <1>1, TypesAtStart
<1>3. TypeInv /\ ConsentInv /\ [RecoveryNext]_rvars => (TypeInv /\ ConsentInv)'
  BY TypesKept, ConsentKept
<1> QED BY <1>2, <1>3, PTL DEF FairRecoverySpec

(***************************************************************************)
(* "NEVER destructively modify disks without explicit typed confirmation"  *)
(* and "Dry-run mode makes ZERO disk changes"                              *)
(* (installer/kairos_installer.py:13-16), whatever earlier sessions left   *)
(* open: a session changes only the disk its user typed the phrase for and *)
(* disks that were open when it began, and a dry one changes nothing.      *)
(***************************************************************************)
THEOREM InstallerAsksFirst == FairRecoverySpec => DisksChangeOnConsent
<1>1. TypeInv /\ ConsentInv /\ [RecoveryNext]_rvars =>
        [session.stage \notin {"off", "exited"} =>
           /\ \A d \in Disks : content'[d] # content[d] =>
                (d = session.disk /\ session.typed) \/ d \in session.leftover
           /\ session.dry => UNCHANGED <<content, mapper, mnt, bare>>]_ivars
  BY ConsentStep
<1> QED BY <1>1, ConsentHolds, PTL DEF FairRecoverySpec, DisksChangeOnConsent

----------------------------------------------------------------------------
(* The health check *)

\* What the health check has seen stays where it saw it.
Seen == RealInstall /\ session.code = 0 => ConfigFiles \subseteq bare \/ IsMounted
Alone(do, q) == Head(q).do = do /\ Tail(q) = <<>>
HealthInv ==
  /\ session.stage = "run" /\ session.step = 23 =>
       IF session.queue = <<>> THEN Seen ELSE Alone("health check", session.queue)
  /\ session.stage \in {"run", "exited"} /\ session.step = 24 =>
       Seen /\ (session.queue # <<>> => Alone("write", session.queue))

LEMMA OneCommand ==
  /\ <<Run("health check")>> # <<>>
  /\ Alone("health check", <<Run("health check")>>)
  /\ Alone("write", <<TryWrite("firstboot service")>>)
<1>1. Run("health check").do = "health check" /\ TryWrite("firstboot service").do = "write"
  BY DEF Run, TryWrite, Command
<1>2. ASSUME NEW c, NEW do, c.do = do PROVE <<c>> # <<>> /\ Alone(do, <<c>>)
  BY <1>2 DEF Alone
<1>3. /\ <<Run("health check")>> # <<>>
      /\ Alone("health check", <<Run("health check")>>)
  BY <1>1, <1>2, Zenon
<1>4. Alone("write", <<TryWrite("firstboot service")>>)
  BY <1>1, <1>2, Zenon
<1> QED BY <1>3, <1>4

\* The queue of the last two steps.
LEMMA LastQueues ==
  ASSUME HealthInv, session.queue # <<>>, session.stage = "run", session.step \in {23, 24}
  PROVE  /\ session.step = 23 => Head(session.queue).do = "health check"
         /\ session.step = 24 => Head(session.queue).do = "write" /\ Seen
         /\ Tail(session.queue) = <<>>
BY DEF HealthInv, Alone

LEMMA SeenStays ==
  ASSUME Seen, mnt' = mnt, bare \subseteq bare', session'.disk = session.disk,
         session'.dry = session.dry, session'.code \in {session.code, 1, 2, 130}
  PROVE  Seen'
BY DEF Seen, RealInstall, IsMounted

LEMMA HealthAtSteps ==
  ASSUME InstallInv, HealthInv, BeginStep \/ Finish \/ HealthCheck \/ Interrupt
  PROVE  HealthInv'
<1>1. session \in Session /\ session.step \in Nat
  BY SessionFields DEF InstallInv, InstallerTypeOK
<1>2. CASE BeginStep
  <2> DEFINE q == CommandsOf(Program[session.step + 1], session)
  <2>1. /\ session' = [session EXCEPT !.step = @ + 1, !.queue = q]
        /\ UNCHANGED machine /\ session.stage = "run" /\ session.queue = <<>>
    BY <1>2 DEF BeginStep, AtEndOfStep
  <2>2. session.step = 22 => q # <<>> /\ Alone("health check", q)
    <3>1. CASE session.step = 22
      <4>1. session.step + 1 = 23 BY <3>1
      <4>2. q = HealthCommands(session) BY <4>1, StepCommands
      <4>3. q = <<Run("health check")>> BY <4>2 DEF HealthCommands
      <4> HIDE DEF q
      <4> QED BY <4>3, OneCommand, Zenon
    <3> QED BY <3>1
  <2>3. session.step = 23 => q = <<>> \/ Alone("write", q)
    <3>1. CASE session.step = 23
      <4>1. session.step + 1 = 24 BY <3>1
      <4>2. q = FirstBootCommands(session) BY <4>1, StepCommands
      <4>3. q = <<>> \/ q = <<TryWrite("firstboot service")>>
        BY <4>2 DEF FirstBootCommands, OnlyLive
      <4> HIDE DEF q
      <4> QED BY <4>3, OneCommand, Zenon
    <3> QED BY <3>1
  <2> HIDE DEF q
  <2>4. /\ session'.step = session.step + 1 /\ session'.queue = q
        /\ session'.code = session.code /\ session'.stage = "run"
    BY <1>1, <2>1 DEF Session
  <2>5. /\ session'.disk = session.disk /\ session'.dry = session.dry
        /\ mnt' = mnt /\ bare' = bare
    BY <1>2, ChoicesKept DEF machine
  <2>6. CASE session.step = 22
    <3>1. session'.step = 23 BY <2>4, <2>6
    <3>2. session'.step # 24 BY <3>1
    <3>3. session'.queue # <<>> /\ Alone("health check", session'.queue)
      BY <2>2, <2>4, <2>6, Zenon
    <3> QED BY <3>2, <3>3 DEF HealthInv, Alone
  <2>7. CASE session.step = 23
    <3>1. Seen BY <2>1, <2>7 DEF HealthInv
    <3>2. Seen' BY <2>4, <2>5, <3>1, SeenStays
    <3>3. session'.step = 24 BY <2>4, <2>7
    <3>4. session'.queue = <<>> \/ Alone("write", session'.queue)
      BY <2>3, <2>4, <2>7
    <3>5. session'.step # 23 BY <3>3
    <3> QED BY <3>2, <3>4, <3>5 DEF HealthInv, Alone
  <2>8. CASE session.step \notin {22, 23}
    <3>1. session'.step \notin {23, 24} BY <1>1, <2>4, <2>8
    <3> QED BY <3>1 DEF HealthInv
  <2> QED BY <2>6, <2>7, <2>8
<1>3. CASE Finish
  <2>1. session' = [session EXCEPT !.stage = "exited"] /\ session.stage = "run"
        /\ session.queue = <<>> /\ session.step = 24
    BY <1>3, ProgramNames DEF Finish, AtEndOfStep
  <2>2. /\ session'.stage = "exited" /\ session'.queue = <<>> /\ session'.code = session.code
        /\ session'.step = 24
    BY <1>1, <2>1 DEF Session
  <2>3. /\ session'.disk = session.disk /\ session'.dry = session.dry
        /\ mnt' = mnt /\ bare' = bare
    BY <1>3, ChoicesKept DEF machine
  <2>4. Seen BY <2>1 DEF HealthInv
  <2>5. Seen' BY <2>2, <2>3, <2>4, SeenStays
  <2> QED BY <2>2, <2>5 DEF HealthInv
<1>4. CASE HealthCheck
  <2> DEFINE failed == HealthFailures
  <2>1. /\ session' = [session EXCEPT !.queue = Tail(@), !.code = IF failed THEN 2 ELSE 0]
        /\ session.stage = "run" /\ session.queue # <<>>
        /\ Head(session.queue).do = "health check"
    BY <1>4 DEF HealthCheck
  <2>2. /\ session'.disk = session.disk /\ session'.dry = session.dry
        /\ mnt' = mnt /\ bare' = bare
    BY <1>4, ChoicesKept DEF machine
  <2>3. RealInstall /\ ~failed => ConfigFiles \subseteq bare \/ IsMounted
    BY DEF HealthFailures, Visible, RealInstall, Disk
  <2> HIDE DEF failed
  <2> DEFINE q == Tail(session.queue)
             code == IF failed THEN 2 ELSE 0
  <2>8. code = 0 => ~failed OBVIOUS
  <2>9. session' = [session EXCEPT !.queue = q, !.code = code] BY <2>1
  <2> HIDE DEF q, code
  <2>4. /\ session'.stage = "run" /\ session'.step = session.step
        /\ session'.queue = q /\ (session'.code = 0 => ~failed)
    BY <1>1, <2>1, <2>8, <2>9 DEF Session
  <2>5. Seen' BY <2>2, <2>3, <2>4 DEF Seen, RealInstall, IsMounted
  <2>6. session.step # 24 BY <2>1, LastQueues
  <2>7. session.step = 23 => session'.queue = <<>> BY <2>1, <2>4, LastQueues DEF q
  <2> QED BY <2>4, <2>5, <2>6, <2>7 DEF HealthInv
<1>5. CASE Interrupt
  <2>1. session' = [session EXCEPT !.stage = "exited", !.code = 130, !.queue = <<>>]
    BY <1>5 DEF Interrupt
  <2>2. session'.stage = "exited" /\ session'.code = 130 /\ session'.queue = <<>>
    BY <1>1, <2>1 DEF Session
  <2>3. Seen' BY <2>2 DEF Seen
  <2> QED BY <2>2, <2>3 DEF HealthInv
<1> QED BY <1>2, <1>3, <1>4, <1>5

LEMMA HealthElsewhere ==
  ASSUME InstallInv, HealthInv,
         \/ \E dry, auto \in BOOLEAN : Start(dry, auto)
         \/ \E d \in Disks \cup {NoDisk}, encrypt \in BOOLEAN : Answer(d, encrypt)
         \/ UnknownProfile \/ Confirm \/ Abort \/ Continue \/ GiveUp
  PROVE  HealthInv'
<1>1. session \in Session /\ Placed BY DEF InstallInv, InstallerTypeOK
<1>2. session'.step \notin {23, 24}
  <2>1. ASSUME NEW dry \in BOOLEAN, NEW auto \in BOOLEAN, Start(dry, auto)
        PROVE  session'.step = 0
    <3> DEFINE fresh == OpenDisks = {} /\ bare = {}
               open == OpenDisks
    <3>1. session' = [NoSession EXCEPT
             !.stage = IF auto THEN "run" ELSE "questions",
             !.dry = dry \/ auto, !.encrypt = ~auto, !.fresh = fresh, !.leftover = open]
      BY <2>1 DEF Start
    <3> HIDE DEF fresh, open
    <3> QED BY <3>1 DEF NoSession
  <2>2. ASSUME NEW d \in Disks \cup {NoDisk}, NEW encrypt \in BOOLEAN, Answer(d, encrypt)
        PROVE  session'.step = 0
    BY <1>1, <2>2 DEF Answer, Session, Placed
  <2>3. CASE UnknownProfile \/ Confirm \/ Abort
    <3> DEFINE typed == Disk # NoDisk /\ ~session.dry
    <3>1. /\ session.stage \in {"questions", "confirm"}
          /\ \/ session' = [session EXCEPT !.stage = "exited", !.code = 1]
             \/ session' = [session EXCEPT !.stage = "run", !.typed = typed]
             \/ session' = [session EXCEPT !.stage = "exited", !.code = 0]
      BY <2>3 DEF UnknownProfile, Confirm, Abort
    <3> HIDE DEF typed
    <3>2. session'.step = session.step /\ session.step = 0
      BY <1>1, <3>1 DEF Session, Placed
    <3> QED BY <3>2
  <2>4. CASE Continue \/ GiveUp
    <3>1. session'.step = session.step /\ session.step <= 19 /\ session.step \in Nat
      BY <1>1, <2>4 DEF Continue, GiveUp, Session, Placed
    <3> QED BY <3>1
  <2> QED BY <2>1, <2>2, <2>3, <2>4
<1> QED BY <1>2 DEF HealthInv

LEMMA HealthInCommands ==
  ASSUME InstallInv, HealthInv,
         DiskCommand \/ FileCommand \/ DryCommand \/ FailureIgnored \/ FailureRaised
  PROVE  HealthInv'
<1>1. session \in Session BY DEF InstallInv, InstallerTypeOK
<1>2. session.stage = "run" /\ session.queue # <<>>
  BY DiskCommandHead
  DEF FileCommand, WriteFile, Pacstrap, NoPackageManager, Performs, DryCommand,
      FailureIgnored, FailureRaised, Fails
<1>3. Head(session.queue).do # "health check"
  BY DiskCommandHead
  DEF DiskDoes, FileCommand, WriteFile, Pacstrap, NoPackageManager, Performs, DryCommand,
      FailureIgnored, FailureRaised, Fails
<1>4. session.step # 23 BY <1>2, <1>3, LastQueues
<1>5. DiskCommand \/ Pacstrap \/ NoPackageManager => Head(session.queue).do # "write"
  BY DiskCommandHead DEF DiskDoes, Pacstrap, NoPackageManager, Performs
<1>6. CASE \/ DiskCommand \/ Pacstrap \/ NoPackageManager
  <2>1. session.step # 24 BY <1>2, <1>5, <1>6, LastQueues
  <2>2. session'.step = session.step
    <3>1. CASE DiskCommand \/ Pacstrap
      BY <1>2, <3>1, DiskCommandHead, ProceedFacts DEF Pacstrap, Proceed
    <3>2. CASE NoPackageManager BY <1>1, <3>2 DEF NoPackageManager, Session
    <3> QED BY <1>6, <3>1, <3>2
  <2> QED BY <1>4, <2>1, <2>2 DEF HealthInv
<1>7. CASE WriteFile \/ DryCommand \/ FailureIgnored
  <2>1. /\ session'.step = session.step /\ session'.queue = Tail(session.queue)
        /\ session'.disk = session.disk /\ session'.dry = session.dry
        /\ session'.code = session.code
    <3>1. CASE WriteFile \/ DryCommand
      BY <1>2, <3>1, ProceedFacts DEF WriteFile, DryCommand, Proceed
    <3>2. CASE FailureIgnored
      <4> DEFINE s == [session EXCEPT !.queue = Tail(@)]
      <4>1. session' = [s EXCEPT !.undisturbed = @ /\ failures' = failures]
        BY <3>2 DEF FailureIgnored, Disturbed
      <4>2. /\ s.step = session.step /\ s.queue = Tail(session.queue)
            /\ s.disk = session.disk /\ s.dry = session.dry /\ s.code = session.code
            /\ DOMAIN s = DOMAIN session
        BY <1>1 DEF Session
      <4> HIDE DEF s
      <4> QED BY <1>1, <4>1, <4>2 DEF Session
    <3> QED BY <1>7, <3>1, <3>2
  <2>2. mnt' = mnt /\ bare \subseteq bare'
    BY <1>7 DEF WriteFile, Store, DryCommand, FailureIgnored, Fails, machine
  <2>3. CASE session.step = 24
    <3>1. Seen /\ Tail(session.queue) = <<>> BY <1>2, <2>3, LastQueues
    <3>2. Seen' BY <2>1, <2>2, <3>1, SeenStays
    <3> QED BY <2>1, <2>3, <3>1, <3>2 DEF HealthInv
  <2>4. CASE session.step # 24 BY <1>4, <2>1, <2>4 DEF HealthInv
  <2> QED BY <2>3, <2>4
<1>8. CASE FailureRaised
  <2> DEFINE stage == IF session.step <= Len(InstallSteps) THEN "ask" ELSE "exited"
             s == [session EXCEPT !.queue = <<>>, !.stage = stage, !.code = 1]
  <2>1. session' = [s EXCEPT !.undisturbed = @ /\ failures' = failures]
    BY <1>8 DEF FailureRaised, Disturbed
  <2> HIDE DEF stage
  <2>2. s.step = session.step /\ s.code = 1 /\ s.queue = <<>> /\ DOMAIN s = DOMAIN session
    BY <1>1 DEF Session
  <2> HIDE DEF s
  <2>3. session'.step = session.step /\ session'.code = 1 /\ session'.queue = <<>>
    BY <1>1, <2>1, <2>2 DEF Session
  <2>4. Seen' BY <2>3 DEF Seen
  <2> QED BY <1>4, <2>3, <2>4 DEF HealthInv
<1> QED BY <1>6, <1>7, <1>8 DEF FileCommand

LEMMA HealthKept ==
  ASSUME TypeInv, HealthInv, [RecoveryNext]_rvars PROVE HealthInv'
<1>1. InstallInv /\ (running # LiveSystem => session.stage = "off") BY DEF TypeInv
<1>2. CASE UNCHANGED <<mnt, bare, session>>
  BY <1>2 DEF HealthInv, Seen, RealInstall, IsMounted
<1>3. CASE GoesDown
  <2>1. session'.stage = "off" BY <1>1, <1>3, GoesDownTypes
  <2> QED BY <2>1 DEF HealthInv
<1>4. CASE InstallerNext
  BY <1>1, <1>4, HealthAtSteps, HealthElsewhere, HealthInCommands DEF InstallerNext, Work
<1>5. InstallerNext \/ GoesDown \/ UNCHANGED <<mnt, bare, session>>
  BY DEF RecoveryNext, Live, Boots, Lives, Recovers, BootLive, BootDisk, Restart, TakeSnapshot,
         DeleteSnapshot, Update, BootPrevious, RollbackUpdate, SetDefault, Repair, AddMissing,
         EngineRollback, EngineBootPrevious, rvars, ivars, machine
<1> QED BY <1>2, <1>3, <1>4, <1>5

LEMMA HealthHolds == FairRecoverySpec => [](TypeInv /\ HealthInv)
<1>1. RecoveryInit => HealthInv
  BY DEF RecoveryInit, InstallerInit, HealthInv, NoSession
<1>2. RecoveryInit => TypeInv /\ HealthInv BY <1>1, TypesAtStart
<1>3. TypeInv /\ HealthInv /\ [RecoveryNext]_rvars => (TypeInv /\ HealthInv)'
  BY TypesKept, HealthKept
<1> QED BY <1>2, <1>3, PTL DEF FairRecoverySpec

(***************************************************************************)
(* Whatever failed before: when the "Post-install verification"            *)
(* (installer/kairos_installer.py:2025-2085) reports success for a disk,   *)
(* the files it has found lie in the live system's own /mnt, or the target *)
(* could not be unmounted (:1845-1868, :1901-1905) and is mounted still.   *)
(***************************************************************************)
THEOREM VerificationMissesTheDisk == FairRecoverySpec => []SuccessIsNotAboutTheDisk
<1>1. HealthInv => SuccessIsNotAboutTheDisk
  BY ProgramNames DEF HealthInv, SuccessIsNotAboutTheDisk, Complete, Seen
<1> QED BY <1>1, HealthHolds, PTL

----------------------------------------------------------------------------
(* Short sequences *)

LEMMA FirstOfFew ==
  /\ \A a : <<a>> # <<>> /\ Head(<<a>>) = a /\ Tail(<<a>>) = <<>>
  /\ \A a, b : <<a, b>> # <<>> /\ Head(<<a, b>>) = a /\ Tail(<<a, b>>) = <<b>>
  /\ \A a, b, c :
       <<a, b, c>> # <<>> /\ Head(<<a, b, c>>) = a /\ Tail(<<a, b, c>>) = <<b, c>>
  /\ \A a, b, c, d :
       /\ <<a, b, c, d>> # <<>> /\ Head(<<a, b, c, d>>) = a
       /\ Tail(<<a, b, c, d>>) = <<b, c, d>>
  /\ \A a, b, c, d, e :
       /\ <<a, b, c, d, e>> # <<>> /\ Head(<<a, b, c, d, e>>) = a
       /\ Tail(<<a, b, c, d, e>>) = <<b, c, d, e>>
  /\ \A a, b, c, d, e, f :
       /\ <<a, b, c, d, e, f>> # <<>> /\ Head(<<a, b, c, d, e, f>>) = a
       /\ Tail(<<a, b, c, d, e, f>>) = <<b, c, d, e, f>>
OBVIOUS

LEMMA Joined ==
  /\ \A a, b \in Commands : <<a>> \o <<b>> = <<a, b>>
  /\ \A a \in Commands : <<a>> \o <<>> = <<a>>
  /\ \A a, b \in Commands : <<a, b>> \o <<>> = <<a, b>>
  /\ \A a, b, c \in Commands : <<a, b>> \o <<c>> = <<a, b, c>>
  /\ \A a, b, c \in Commands : <<a>> \o <<b, c>> = <<a, b, c>>
  /\ \A a, b, c, d \in Commands : <<a, b, c>> \o <<d>> = <<a, b, c, d>>
  /\ \A a, b, c, d \in Commands : <<a, b>> \o <<c, d>> = <<a, b, c, d>>
  /\ \A a, b, c, d, e \in Commands : <<a, b, c, d>> \o <<e>> = <<a, b, c, d, e>>
  /\ \A a, b, c, d, e, f \in Commands :
       <<a, b, c, d, e>> \o <<f>> = <<a, b, c, d, e, f>>
<1>0. <<>> \in Seq(Commands) /\ Len(<<>>) = 0 OBVIOUS
<1>1. \A a, b \in Commands : <<a>> \o <<b>> = <<a, b>>
  <2> TAKE a, b \in Commands
  <2>1. /\ <<a>> \in Seq(Commands) /\ <<b>> \in Seq(Commands) /\ <<a, b>> \in Seq(Commands)
        /\ Len(<<a>>) = 1 /\ Len(<<b>>) = 1 /\ Len(<<a, b>>) = 2
        /\ <<a>>[1] = a /\ <<b>>[1] = b /\ <<a, b>>[1] = a /\ <<a, b>>[2] = b
    OBVIOUS
  <2> DEFINE l == <<a>>
             r == <<b>>
             t == <<a, b>>
  <2> HIDE DEF l, r, t
  <2>2. /\ l \in Seq(Commands) /\ r \in Seq(Commands) /\ t \in Seq(Commands)
        /\ Len(l) = 1 /\ Len(r) = 1 /\ Len(t) = 2
        /\ l[1] = a /\ r[1] = b /\ t[1] = a /\ t[2] = b
    BY <2>1 DEF l, r, t
  <2>3. /\ Len(t) = Len(l) + Len(r)
        /\ \A i \in 1 .. Len(l) : t[i] = l[i]
        /\ \A i \in 1 .. Len(r) : t[Len(l) + i] = r[i]
    BY <2>2
  <2>4. l \o r = t BY <2>2, <2>3, Concatenated
  <2> QED BY <2>4 DEF l, r, t
<1>2. \A a \in Commands : <<a>> \o <<>> = <<a>>
  <2> TAKE a \in Commands
  <2>1. <<a>> \in Seq(Commands) OBVIOUS
  <2> QED BY <2>1, EmptySeq, ConcatEmptySeq
<1>3. \A a, b \in Commands : <<a, b>> \o <<>> = <<a, b>>
  <2> TAKE a, b \in Commands
  <2>1. <<a, b>> \in Seq(Commands) OBVIOUS
  <2> QED BY <2>1, EmptySeq, ConcatEmptySeq
<1>4. \A a, b, c \in Commands : <<a, b>> \o <<c>> = <<a, b, c>>
  <2> TAKE a, b, c \in Commands
  <2>1. /\ <<a, b>> \in Seq(Commands) /\ <<c>> \in Seq(Commands)
        /\ <<a, b, c>> \in Seq(Commands)
        /\ Len(<<a, b, c>>) = Len(<<a, b>>) + Len(<<c>>)
        /\ \A i \in 1 .. Len(<<a, b>>) : <<a, b, c>>[i] = <<a, b>>[i]
        /\ \A i \in 1 .. Len(<<c>>) : <<a, b, c>>[Len(<<a, b>>) + i] = <<c>>[i]
    OBVIOUS
  <2> QED BY <2>1, Concatenated
<1>5. \A a, b, c, d \in Commands : <<a, b>> \o <<c, d>> = <<a, b, c, d>>
  <2> TAKE a, b, c, d \in Commands
  <2>1. /\ <<a, b>> \in Seq(Commands) /\ <<c, d>> \in Seq(Commands)
        /\ <<a, b, c, d>> \in Seq(Commands)
        /\ Len(<<a, b, c, d>>) = Len(<<a, b>>) + Len(<<c, d>>)
        /\ \A i \in 1 .. Len(<<a, b>>) : <<a, b, c, d>>[i] = <<a, b>>[i]
        /\ \A i \in 1 .. Len(<<c, d>>) : <<a, b, c, d>>[Len(<<a, b>>) + i] = <<c, d>>[i]
    OBVIOUS
  <2> QED BY <2>1, Concatenated
<1>6. \A a, b, c, d, e \in Commands : <<a, b, c, d>> \o <<e>> = <<a, b, c, d, e>>
  <2> TAKE a, b, c, d, e \in Commands
  <2> DEFINE l == <<a, b, c, d>>
             t == <<a, b, c, d, e>>
  <2>1. /\ l \in Seq(Commands) /\ <<e>> \in Seq(Commands) /\ t \in Seq(Commands)
        /\ Len(t) = Len(l) + Len(<<e>>)
        /\ \A i \in 1 .. Len(l) : t[i] = l[i]
        /\ \A i \in 1 .. Len(<<e>>) : t[Len(l) + i] = <<e>>[i]
    OBVIOUS
  <2> HIDE DEF l, t
  <2>2. l \o <<e>> = t BY <2>1, Concatenated
  <2> QED BY <2>2 DEF l, t
<1>7. \A a, b, c, d, e, f \in Commands : <<a, b, c, d, e>> \o <<f>> = <<a, b, c, d, e, f>>
  <2> TAKE a, b, c, d, e, f \in Commands
  <2> DEFINE l == <<a, b, c, d, e>>
             t == <<a, b, c, d, e, f>>
  <2>1. /\ l \in Seq(Commands) /\ <<f>> \in Seq(Commands) /\ t \in Seq(Commands)
        /\ Len(t) = Len(l) + Len(<<f>>)
        /\ \A i \in 1 .. Len(l) : t[i] = l[i]
        /\ \A i \in 1 .. Len(<<f>>) : t[Len(l) + i] = <<f>>[i]
    OBVIOUS
  <2> HIDE DEF l, t
  <2>2. l \o <<f>> = t BY <2>1, Concatenated
  <2> QED BY <2>2 DEF l, t
<1>8. \A a, b, c, d \in Commands : <<a, b, c>> \o <<d>> = <<a, b, c, d>>
  <2> TAKE a, b, c, d \in Commands
  <2>1. /\ <<a, b, c>> \in Seq(Commands) /\ <<d>> \in Seq(Commands)
        /\ <<a, b, c, d>> \in Seq(Commands)
        /\ Len(<<a, b, c, d>>) = Len(<<a, b, c>>) + Len(<<d>>)
        /\ \A i \in 1 .. Len(<<a, b, c>>) : <<a, b, c, d>>[i] = <<a, b, c>>[i]
        /\ \A i \in 1 .. Len(<<d>>) : <<a, b, c, d>>[Len(<<a, b, c>>) + i] = <<d>>[i]
    OBVIOUS
  <2> QED BY <2>1, Concatenated
<1>9. \A a, b, c \in Commands : <<a>> \o <<b, c>> = <<a, b, c>>
  <2> TAKE a, b, c \in Commands
  <2>1. /\ <<a>> \in Seq(Commands) /\ <<b, c>> \in Seq(Commands)
        /\ <<a, b, c>> \in Seq(Commands)
        /\ Len(<<a, b, c>>) = Len(<<a>>) + Len(<<b, c>>)
        /\ \A i \in 1 .. Len(<<a>>) : <<a, b, c>>[i] = <<a>>[i]
        /\ \A i \in 1 .. Len(<<b, c>>) : <<a, b, c>>[Len(<<a>>) + i] = <<b, c>>[i]
    OBVIOUS
  <2> QED BY <2>1, Concatenated
<1> QED BY <1>1, <1>2, <1>3, <1>4, <1>5, <1>6, <1>7, <1>8, <1>9

----------------------------------------------------------------------------
(* The story of a session that nothing disturbs: what lies where after     *)
(* each of its commands                                                    *)

Queue(commands) == session.queue = commands
Layered(d, subvolume, esp, boot) ==
  [disk |-> d, subvolume |-> subvolume, efi |-> esp, boot |-> boot]
Laid(layer) == <<LiveDirectory, layer>>
Off == mnt = <<LiveDirectory>>
On(subvolume, esp, boot) == mnt = Laid(Layered(Disk, subvolume, esp, boot))
Shut == Off /\ mapper = NoDisk
Key == IF session.encrypt THEN Disk ELSE NoDisk
Esp == IF efi THEN Disk ELSE NoDisk
Lying(c) == {f \in Files : <<"@", f>> \in c.files}
Held == Lying(content[Disk])

Formatted ==
  /\ content[Disk].parts /\ "ext4" \in content[Disk].boot
  /\ efi => content[Disk].esp = {"fat"}
Made(stage) ==
  /\ content[Disk].luks = session.encrypt /\ content[Disk].btrfs = stage
  /\ content[Disk].files = {}
Rooted ==
  /\ content[Disk].parts /\ "ext4" \in content[Disk].boot
  /\ content[Disk].luks = session.encrypt /\ content[Disk].btrfs = "ready"
\* No profile lists the package of GRUB.
Grubless == "grub" \notin Held /\ "grub.cfg" \notin Held
Base ==
  /\ Rooted /\ Formatted /\ Grubless
  /\ "packages" \in Held => "kernel" \in content[Disk].boot

Story0 == Shut /\ bare = {} /\ Queue(<<>>)
Story1 ==
  /\ Shut /\ bare = {}
  /\ \/ Queue(<<Run("zap"), Run("new partitions")>>)
     \/ Queue(<<Run("new partitions")>>)
     \/ Queue(<<>>) /\ content[Disk].parts
Story2 ==
  /\ Shut /\ bare = {} /\ content[Disk].parts
  /\ \/ efi /\ Queue(<<Run("mkfs efi"), Run("mkfs boot")>>)
     \/ (efi => content[Disk].esp = {"fat"}) /\ Queue(<<Run("mkfs boot")>>)
     \/ Formatted /\ Queue(<<>>)
Story3 ==
  /\ Off /\ bare = {} /\ Formatted
  /\ \/ /\ session.encrypt /\ mapper = NoDisk
        /\ Queue(<<Run("luksFormat"), Run("luksOpen")>>)
     \/ /\ session.encrypt /\ mapper = NoDisk /\ content[Disk].luks
        /\ Queue(<<Run("luksOpen")>>)
     \/ mapper = Key /\ (session.encrypt => content[Disk].luks) /\ Queue(<<>>)
Story4 ==
  /\ bare = {} /\ Formatted /\ mapper = Key
  /\ \/ /\ Off /\ (session.encrypt => content[Disk].luks)
        /\ Queue(<<Run("mkfs root"), Run("mount top"), Run("create subvolumes"),
                   Run("umount")>>)
     \/ /\ Off /\ Made("made")
        /\ Queue(<<Run("mount top"), Run("create subvolumes"), Run("umount")>>)
     \/ /\ On("top", NoDisk, NoDisk) /\ Made("made")
        /\ Queue(<<Run("create subvolumes"), Run("umount")>>)
     \/ On("top", NoDisk, NoDisk) /\ Made("ready") /\ Queue(<<Run("umount")>>)
     \/ Off /\ Made("ready") /\ Queue(<<>>)
Story5 ==
  /\ bare = {} /\ Base /\ mapper = Key
  /\ \/ /\ Off /\ efi
        /\ Queue(<<Run("mount root"), Run("mount subvolumes"), Write("efi"),
                   Run("mount efi"), Write("boot"), Run("mount boot")>>)
     \/ /\ Off /\ ~efi
        /\ Queue(<<Run("mount root"), Run("mount subvolumes"), Write("boot"),
                   Run("mount boot")>>)
     \/ /\ On("@", NoDisk, NoDisk) /\ efi
        /\ Queue(<<Run("mount subvolumes"), Write("efi"), Run("mount efi"),
                   Write("boot"), Run("mount boot")>>)
     \/ /\ On("@", NoDisk, NoDisk) /\ ~efi
        /\ Queue(<<Run("mount subvolumes"), Write("boot"), Run("mount boot")>>)
     \/ /\ On("@", NoDisk, NoDisk) /\ efi
        /\ Queue(<<Write("efi"), Run("mount efi"), Write("boot"), Run("mount boot")>>)
     \/ /\ On("@", NoDisk, NoDisk) /\ efi /\ "efi" \in Held
        /\ Queue(<<Run("mount efi"), Write("boot"), Run("mount boot")>>)
     \/ /\ On("@", Esp, NoDisk) /\ (efi => "efi" \in Held)
        /\ Queue(<<Write("boot"), Run("mount boot")>>)
     \/ /\ On("@", Esp, NoDisk) /\ (efi => "efi" \in Held) /\ "boot" \in Held
        /\ Queue(<<Run("mount boot")>>)
     \/ On("@", Esp, Disk) /\ (efi => "efi" \in Held) /\ Queue(<<>>)

\* What steps 6 to 18 put on the disk, and the commands that do.
Due(n) ==
  CASE n = 6 -> {"packages"} [] n = 7 -> {"fstab"} [] n = 8 -> {"hostname"}
    [] n = 9 -> {"locale"} [] n = 12 -> {"accounts"} [] n = 13 -> {"sudoers"}
    [] n = 14 -> {"limits"} [] n = 15 -> {"identity"} [] n = 16 -> {"initramfs"}
    [] n = 18 -> {"first-boot.json"} [] OTHER -> {}
DueFiles == ConfigFiles \cup {"packages", "accounts", "initramfs"}
Filed(c) == IF c.do = "pacstrap" THEN "packages" ELSE c.what
Filing(c, n) ==
  /\ c.do \in {"write", "chroot", "pacstrap"}
  /\ c.do = "chroot" => n > 6
  /\ Filed(c) \notin {"loader", "entries", "grub", "grub.cfg"} /\ c.what # "packages"
  /\ c.what = "firstboot enabled" => ~c.checked
StoryFiles ==
  /\ bare = {} /\ Base /\ mapper = Key /\ On("@", Esp, Disk)
  /\ \A n \in 6 .. 18 : n < session.step => Due(n) \subseteq Held
  /\ Due(session.step) \subseteq
       Held \cup {Filed(session.queue[i]) : i \in DOMAIN session.queue}
  /\ \A i \in DOMAIN session.queue : Filing(session.queue[i], session.step)
  /\ efi => "efi" \in Held

Filled == Base /\ DueFiles \subseteq Held /\ (efi => "efi" \in Held)
Story19 ==
  /\ bare = {} /\ Filled
  /\ \/ /\ mapper = Key /\ On("@", Esp, Disk)
        /\ \/ /\ session.encrypt
              /\ Queue(<<Try("umount below"), Try("umount"), Try("luksClose")>>)
           \/ ~session.encrypt /\ Queue(<<Try("umount below"), Try("umount")>>)
     \/ /\ mapper = Key /\ On("@", NoDisk, NoDisk)
        /\ \/ session.encrypt /\ Queue(<<Try("umount"), Try("luksClose")>>)
           \/ ~session.encrypt /\ Queue(<<Try("umount")>>)
     \/ mapper = Key /\ session.encrypt /\ Off /\ Queue(<<Try("luksClose")>>)
     \/ Shut /\ Queue(<<>>)

\* Only what is not encrypted is mounted again.
Again(esp, boot) == IF session.encrypt THEN Off ELSE On("@", esp, boot)
Story20 ==
  /\ bare = {} /\ Filled /\ mapper = NoDisk
  /\ \/ Off /\ efi /\ Queue(<<Try("mount root"), Try("mount efi"), Try("mount boot")>>)
     \/ Off /\ ~efi /\ Queue(<<Try("mount root"), Try("mount boot")>>)
     \/ Again(NoDisk, NoDisk) /\ efi /\ Queue(<<Try("mount efi"), Try("mount boot")>>)
     \/ Again(Esp, NoDisk) /\ Queue(<<Try("mount boot")>>)
     \/ Again(Esp, Disk) /\ Queue(<<>>)

Kept ==
  /\ Rooted /\ "kernel" \in content[Disk].boot
  /\ DueFiles \subseteq Held /\ bare \cap (ConfigFiles \cup {"packages"}) = {}
Unentered == IF efi THEN content[Disk].esp = {"fat"} ELSE Grubless
Loaded ==
  IF efi /\ ~session.encrypt THEN content[Disk].esp = {"fat", "loader"} ELSE Unentered
Entered ==
  IF efi /\ ~session.encrypt THEN content[Disk].esp = {"fat", "loader", "entries"}
  ELSE Unentered
Story21 ==
  /\ Kept /\ mapper = NoDisk /\ Again(Esp, Disk)
  /\ \/ efi /\ Unentered /\ Queue(<<Chroot("loader"), Write("efi"), TryWrite("entries")>>)
     \/ efi /\ Loaded /\ Queue(<<Write("efi"), TryWrite("entries")>>)
     \/ efi /\ Loaded /\ Queue(<<TryWrite("entries")>>)
     \/ /\ ~efi /\ Unentered
        /\ Queue(<<Chroot("grub"), Write("grub defaults"), Chroot("grub.cfg")>>)
     \/ ~efi /\ Unentered /\ Queue(<<Write("grub defaults"), Chroot("grub.cfg")>>)
     \/ ~efi /\ Unentered /\ Queue(<<Chroot("grub.cfg")>>)
     \/ Entered /\ Queue(<<>>)
Story22 ==
  /\ Kept /\ mapper = NoDisk /\ Entered
  /\ \/ ~session.encrypt /\ On("@", Esp, Disk) /\ Queue(<<Try("umount")>>)
     \/ Off /\ Queue(<<>>)
StoryEnd == Kept /\ Shut /\ Entered
Story23 == StoryEnd /\ (Queue(<<Run("health check")>>) \/ Queue(<<>>))
Story24 == StoryEnd /\ (Queue(<<TryWrite("firstboot service")>>) \/ Queue(<<>>))

Story ==
  /\ session.step = 0 => Story0
  /\ session.step = 1 => Story1
  /\ session.step = 2 => Story2
  /\ session.step = 3 => Story3
  /\ session.step = 4 => Story4
  /\ session.step = 5 => Story5
  /\ session.step \in 6 .. 18 => StoryFiles
  /\ session.step = 19 => Story19
  /\ session.step = 20 => Story20
  /\ session.step = 21 => Story21
  /\ session.step = 22 => Story22
  /\ session.step = 23 => Story23
  /\ session.step = 24 => Story24

\* A session that is dry or has no disk touches no disk and no mount.
Bystander == session.dry \/ Disk = NoDisk
Harmless(c) == c.do \in {"write", "chroot", "pacstrap", "health check"}
Gentle(q) == \A i \in DOMAIN q : Harmless(q[i])

Asked == session.stage \in {"questions", "confirm"} => Story0
Idle ==
  session.stage \in {"run", "ask", "exited"} /\ Bystander =>
    Shut /\ (session.dry \/ Gentle(session.queue))
Told ==
  RealInstall =>
    /\ session.stage # "ask"
    /\ session.stage = "run" => Story
    /\ Complete => StoryEnd
CleanInv == session.fresh /\ session.undisturbed => Asked /\ Idle /\ Told

LEMMA TwoLayers ==
  ASSUME NEW a, NEW b, NEW c
  PROVE  /\ Append(<<a>>, b) = <<a, b>>
         /\ SubSeq(<<a, b>>, 1, 1) = <<a>>
         /\ [<<a, b>> EXCEPT ![2] = c] = <<a, c>>
<1> DEFINE S == {a, b}
           p == <<a, b>>
           q == <<a>>
<1>1. p \in Seq(S) /\ Len(p) = 2 /\ p[1] = a /\ p[2] = b OBVIOUS
<1>2. q \in Seq(S) /\ Len(q) = 1 /\ q[1] = a OBVIOUS
<1>3. b \in S OBVIOUS
<1>4. [p EXCEPT ![2] = c] = <<a, c>> OBVIOUS
<1> HIDE DEF S, p, q
<1>5. Append(q, b) = p
  <2> DEFINE j == Append(q, b)
  <2>2. q \in Seq(S) BY <1>2
  <2>0. /\ j \in Seq(S) /\ Len(j) = Len(q) + 1 /\ j[Len(q) + 1] = b
        /\ \A i \in 1 .. Len(q) : j[i] = q[i]
    BY <2>2, <1>3, AppendProperties
  <2>1. j \in Seq(S) /\ Len(j) = 2 /\ j[1] = a /\ j[2] = b
    BY <1>2, <2>0
  <2> HIDE DEF j
  <2>4. \A i \in 1 .. Len(j) : j[i] = p[i] BY <1>1, <2>1
  <2>3. j = p BY <1>1, <2>1, <2>4, SeqEqual
  <2> QED BY <2>3 DEF j
<1>6. SubSeq(p, 1, 1) = q
  <2> DEFINE j == SubSeq(p, 1, 1)
  <2>1. \A i \in 1 .. 1 : p[i] \in S BY <1>1
  <2>2. j \in Seq(S) /\ Len(j) = 1 /\ j[1] = a
    BY <1>1, <2>1, SubSeqProperties
  <2> HIDE DEF j
  <2>3. \A i \in 1 .. Len(j) : j[i] = q[i] BY <1>2, <2>2
  <2>4. j = q BY <1>2, <2>2, <2>3, SeqEqual
  <2> QED BY <2>4 DEF j
<1> QED BY <1>4, <1>5, <1>6 DEF p, q

LEMMA OffFacts ==
  ASSUME Off
  PROVE  /\ ~IsMounted /\ Visible = bare
         /\ Top.efi = NoDisk /\ Top.boot = NoDisk
         /\ \A i \in DOMAIN mnt :
              mnt[i].disk = NoDisk /\ mnt[i].efi = NoDisk /\ mnt[i].boot = NoDisk
         /\ \A l : Append(mnt, l) = Laid(l)
<1>1. /\ LiveDirectory.disk = NoDisk /\ LiveDirectory.efi = NoDisk
      /\ LiveDirectory.boot = NoDisk
  BY DEF LiveDirectory
<1> DEFINE p == <<LiveDirectory>>
<1>2. Len(p) = 1 /\ DOMAIN p = 1 .. 1 /\ p[1] = LiveDirectory OBVIOUS
<1>3. mnt = p BY DEF Off
<1>4. \A l : Append(p, l) = Laid(l) BY TwoLayers DEF Laid
<1> HIDE DEF p
<1>5. ~IsMounted /\ Visible = bare BY <1>2, <1>3 DEF IsMounted, Visible
<1>6. Top.efi = NoDisk /\ Top.boot = NoDisk BY <1>1, <1>2, <1>3 DEF Top
<1>7. \A i \in DOMAIN mnt :
        mnt[i].disk = NoDisk /\ mnt[i].efi = NoDisk /\ mnt[i].boot = NoDisk
  BY <1>1, <1>2, <1>3
<1> QED BY <1>3, <1>4, <1>5, <1>6, <1>7

LEMMA OnFacts ==
  ASSUME NEW subvolume, NEW x, NEW y, On(subvolume, x, y)
  PROVE  /\ IsMounted /\ Visible = FilesOf(Disk, subvolume)
         /\ Top = Layered(Disk, subvolume, x, y)
         /\ Top.disk = Disk /\ Top.subvolume = subvolume /\ Top.efi = x /\ Top.boot = y
         /\ RootInUse(Disk)
         /\ SubSeq(mnt, 1, Len(mnt) - 1) = <<LiveDirectory>>
         /\ \A l : [mnt EXCEPT ![Len(mnt)] = l] = Laid(l)
         /\ \A d \in Disks : d # Disk => ~RootInUse(d)
<1> DEFINE t == Layered(Disk, subvolume, x, y)
<1>1. t.disk = Disk /\ t.subvolume = subvolume /\ t.efi = x /\ t.boot = y
  BY DEF Layered
<1>2. mnt = <<LiveDirectory, t>> BY DEF On, Laid
<1> HIDE DEF t
<1> DEFINE p == <<LiveDirectory, t>>
<1>3. /\ Len(p) = 2 /\ Len(p) - 1 = 1 /\ 2 \in DOMAIN p /\ p[2] = t /\ p[1] = LiveDirectory
      /\ DOMAIN p = {1, 2}
  OBVIOUS
<1>4. /\ SubSeq(p, 1, 1) = <<LiveDirectory>>
      /\ \A l : [p EXCEPT ![2] = l] = <<LiveDirectory, l>>
  BY TwoLayers
<1>5. mnt = p BY <1>2
<1> HIDE DEF p
<1>6. IsMounted BY <1>3, <1>5 DEF IsMounted
<1>7. Top = t BY <1>3, <1>5 DEF Top
<1>8. Visible = FilesOf(Disk, subvolume) BY <1>1, <1>6, <1>7 DEF Visible
<1>9. RootInUse(Disk) BY <1>1, <1>3, <1>5 DEF RootInUse
<1>10. /\ SubSeq(mnt, 1, Len(mnt) - 1) = <<LiveDirectory>>
       /\ \A l : [mnt EXCEPT ![Len(mnt)] = l] = Laid(l)
  BY <1>3, <1>4, <1>5 DEF Laid
<1>11. ASSUME NEW d \in Disks, d # Disk PROVE ~RootInUse(d)
  <2>1. LiveDirectory.disk = NoDisk /\ d # NoDisk BY InstallerAssumption DEF LiveDirectory
  <2> QED BY <1>1, <1>3, <1>5, <1>11, <2>1 DEF RootInUse
<1> QED BY <1>1, <1>6, <1>7, <1>8, <1>9, <1>10, <1>11 DEF t

----------------------------------------------------------------------------
(* What comes after the head of the queue *)

\* A real session in the midst of a step.
Busy ==
  InstallInv /\ session.stage = "run" /\ RealInstall /\ session.queue # <<>>
\* The command was done, or left out because it was not possible.
Went ==
  /\ IF Possible(Head(session.queue)) THEN DiskCommand \/ WriteFile \/ Pacstrap
     ELSE UNCHANGED machine
  /\ efi' = efi /\ session'.disk = session.disk /\ session'.encrypt = session.encrypt
  /\ session'.step = session.step /\ session'.queue = Tail(session.queue)

LEMMA CountedOnce == InstallInv => failures # failures + 1
<1> SUFFICES ASSUME InstallInv PROVE failures # failures + 1 OBVIOUS
<1>1. failures \in 0 .. MaxMishaps BY DEF InstallInv, InstallerTypeOK
<1> QED BY <1>1

LEMMA Turns ==
  ASSUME Busy, InstallerNext, session.undisturbed, session'.undisturbed,
         Head(session.queue).do # "health check"
  PROVE  /\ session'.fresh = session.fresh /\ session'.step = session.step
         /\ session'.disk = session.disk /\ session'.dry = session.dry
         /\ session'.encrypt = session.encrypt
         /\ \/ session'.stage = "exited" /\ UNCHANGED machine
            \/ session'.stage = "run" /\ Went
            \/ ~Possible(Head(session.queue)) /\ Head(session.queue).checked
<1>1. /\ InstallInv /\ session \in Session /\ session.stage = "run" /\ ~session.dry
      /\ session.queue # <<>> /\ Placed /\ failures # failures + 1
  <2>1. InstallInv /\ RealInstall /\ session.stage = "run" /\ session.queue # <<>>
    BY DEF Busy
  <2>2. session \in Session /\ failures # failures + 1
    BY <2>1, CountedOnce DEF InstallInv, InstallerTypeOK
  <2> QED BY <2>1, <2>2 DEF RealInstall, InstallInv
<1>2. CASE DiskCommand \/ WriteFile \/ Pacstrap
  <2>1. Proceed /\ Undisturbed /\ Possible(Head(session.queue))
    BY <1>2, DiskCommandHead DEF WriteFile, Pacstrap, Performs
  <2> QED BY <1>1, <1>2, <2>1, ProceedFacts DEF Proceed, Undisturbed, Went
<1>3. CASE NoPackageManager
  <2>1. session' = [session EXCEPT !.queue = Tail(@), !.undisturbed = FALSE]
    BY <1>3 DEF NoPackageManager
  <2>2. session'.undisturbed = FALSE BY <1>1, <2>1 DEF Session
  <2> QED BY <2>2
<1>4. CASE FailureIgnored
  <2> DEFINE s == [session EXCEPT !.queue = Tail(@)]
             quiet == s.undisturbed /\ failures' = failures
  <2>0. quiet => failures' = failures OBVIOUS
  <2>1. session' = [s EXCEPT !.undisturbed = quiet] /\ UNCHANGED machine
    BY <1>4 DEF FailureIgnored, Disturbed, Fails
  <2> HIDE DEF quiet
  <2>2. /\ DOMAIN s = DOMAIN session /\ s.step = session.step
        /\ s.queue = Tail(session.queue) /\ s.disk = session.disk
        /\ s.encrypt = session.encrypt /\ s.stage = session.stage
    BY <1>1 DEF Session
  <2> HIDE DEF s
  <2>3. /\ session'.step = session.step /\ session'.queue = Tail(session.queue)
        /\ session'.disk = session.disk /\ session'.encrypt = session.encrypt
        /\ session'.stage = session.stage
        /\ session'.undisturbed = quiet
    BY <1>1, <2>1, <2>2 DEF Session
  <2>4. failures' = failures BY <2>0, <2>3
  <2>5. ~Possible(Head(session.queue))
    <3>1. failures' # failures + 1 BY <1>1, <2>4
    <3> QED BY <1>4, <3>1 DEF FailureIgnored, Fails
  <2>6. Went BY <2>1, <2>3, <2>5 DEF Went, machine
  <2> QED BY <1>1, <1>4, <2>3, <2>6, ChoicesKept
<1>5. CASE FailureRaised
  <2> DEFINE stage == IF session.step <= Len(InstallSteps) THEN "ask" ELSE "exited"
             s == [session EXCEPT !.queue = <<>>, !.stage = stage, !.code = 1]
             quiet == s.undisturbed /\ failures' = failures
  <2>0. quiet => failures' = failures OBVIOUS
  <2>1. session' = [s EXCEPT !.undisturbed = quiet]
    BY <1>5 DEF FailureRaised, Disturbed
  <2> HIDE DEF stage, quiet
  <2>2. DOMAIN s = DOMAIN session /\ s.step = session.step BY <1>1 DEF Session
  <2> HIDE DEF s
  <2>3. /\ session'.step = session.step
        /\ session'.undisturbed = quiet
    BY <1>1, <2>1, <2>2 DEF Session
  <2>4. failures' # failures + 1 BY <1>1, <2>0, <2>3
  <2>5. ~Possible(Head(session.queue)) /\ Head(session.queue).checked
    BY <1>5, <2>4 DEF FailureRaised, Fails
  <2> QED BY <1>1, <1>5, <2>3, <2>5, ChoicesKept
<1>6. CASE Interrupt
  <2>1. session' = [session EXCEPT !.stage = "exited", !.code = 130, !.queue = <<>>]
    BY <1>6 DEF Interrupt
  <2>2. session'.step = session.step /\ session'.stage = "exited"
    BY <1>1, <2>1 DEF Session
  <2> QED BY <1>1, <1>6, <2>2, ChoicesKept
<1>7. \/ DiskCommand \/ WriteFile \/ Pacstrap \/ NoPackageManager
      \/ FailureIgnored \/ FailureRaised \/ Interrupt
  BY <1>1 DEF InstallerNext, Work, FileCommand, Start, Answer, UnknownProfile, Confirm, Abort,
     DryCommand, HealthCheck, BeginStep, Finish, AtEndOfStep, Continue, GiveUp
<1> QED BY <1>2, <1>3, <1>4, <1>5, <1>6, <1>7

LEMMA CommandFields ==
  /\ \A do : /\ Run(do).do = do /\ Run(do).what = "" /\ Run(do).checked
             /\ Try(do).do = do /\ Try(do).what = "" /\ ~Try(do).checked
  /\ \A f : /\ Write(f).do = "write" /\ Write(f).what = f /\ Write(f).checked
            /\ TryWrite(f).do = "write" /\ TryWrite(f).what = f /\ ~TryWrite(f).checked
            /\ Chroot(f).do = "chroot" /\ Chroot(f).what = f /\ ~Chroot(f).checked
BY DEF Run, Try, Write, TryWrite, Chroot, Command

\* What suffices for a command on the machine.
LEMMA Needs ==
  ASSUME NEW c, c.what \notin {"firstboot enabled", "loader", "grub", "grub.cfg"}
  PROVE  /\ c.do \in {"zap", "new partitions", "create subvolumes", "mount subvolumes",
                      "umount below", "write", "pacstrap"} => Possible(c)
         /\ c.do = "mkfs efi" /\ content[Disk].parts
              /\ (\A i \in DOMAIN mnt : mnt[i].efi # Disk) => Possible(c)
         /\ c.do = "mkfs boot" /\ content[Disk].parts
              /\ (\A i \in DOMAIN mnt : mnt[i].boot # Disk) => Possible(c)
         /\ c.do = "luksFormat" /\ content[Disk].parts /\ mapper # Disk
              /\ ~RootInUse(Disk) => Possible(c)
         /\ c.do = "luksOpen" /\ mapper = NoDisk /\ content[Disk].luks => Possible(c)
         /\ c.do = "mkfs root" /\ content[Disk].parts /\ RootDevice # NoDisk
              /\ ~RootInUse(RootDevice) /\ (session.encrypt \/ mapper # Disk) => Possible(c)
         /\ c.do = "mount top" /\ HasRoot({"made", "ready"}) => Possible(c)
         /\ c.do = "mount root" /\ HasRoot({"ready"}) => Possible(c)
         /\ c.do = "mount efi" /\ "fat" \in content[Disk].esp /\ "efi" \in Visible
              /\ Top.efi = NoDisk => Possible(c)
         /\ c.do = "mount boot" /\ "ext4" \in content[Disk].boot
              /\ ("boot" \in Visible \/ "packages" \in Visible)
              /\ Top.boot = NoDisk => Possible(c)
         /\ c.do = "umount" /\ IsMounted => Possible(c)
         /\ c.do = "luksClose" /\ mapper # NoDisk /\ ~RootInUse(mapper) => Possible(c)
         /\ c.do = "chroot" /\ "packages" \in Visible => Possible(c)
<1> HIDE DEF Disk
<1> QED BY DEF Possible

\* The action that a command is.
LEMMA Effects ==
  ASSUME DiskCommand \/ WriteFile \/ Pacstrap
  PROVE  LET do == Head(session.queue).do
         IN  /\ do = "zap" => Zap
             /\ do = "new partitions" => NewPartitions
             /\ do = "mkfs efi" => MkfsEfi
             /\ do = "mkfs boot" => MkfsBoot
             /\ do = "luksFormat" => LuksFormat
             /\ do = "luksOpen" => LuksOpen
             /\ do = "mkfs root" => MkfsRoot
             /\ do = "create subvolumes" => CreateSubvolumes
             /\ do = "mount top" => MountTop
             /\ do = "mount root" => MountRoot
             /\ do = "mount subvolumes" => MountSubvolumes
             /\ do = "mount efi" => MountEfi
             /\ do = "mount boot" => MountBoot
             /\ do = "umount below" => UmountBelow
             /\ do = "umount" => Umount
             /\ do = "luksClose" => LuksClose
             /\ do = "write" => WriteFile
             /\ do = "chroot" => WriteFile
             /\ do = "pacstrap" => Pacstrap
<1> DEFINE do == Head(session.queue).do
<1>1. /\ Zap => do = "zap"
      /\ NewPartitions => do = "new partitions"
      /\ MkfsEfi => do = "mkfs efi"
      /\ MkfsBoot => do = "mkfs boot"
      /\ LuksFormat => do = "luksFormat"
      /\ LuksOpen => do = "luksOpen"
  BY DEF Zap, NewPartitions, MkfsEfi, MkfsBoot, LuksFormat, LuksOpen, Performs
<1>2. /\ MkfsRoot => do = "mkfs root"
      /\ CreateSubvolumes => do = "create subvolumes"
      /\ MountTop => do = "mount top"
      /\ MountRoot => do = "mount root"
      /\ MountSubvolumes => do = "mount subvolumes"
      /\ MountEfi => do = "mount efi"
  BY DEF MkfsRoot, CreateSubvolumes, MountTop, MountRoot, MountSubvolumes, MountEfi, Performs
<1>3. /\ MountBoot => do = "mount boot"
      /\ UmountBelow => do = "umount below"
      /\ Umount => do = "umount"
      /\ LuksClose => do = "luksClose"
      /\ WriteFile => do \in {"write", "chroot"}
      /\ Pacstrap => do = "pacstrap"
  BY DEF MountBoot, UmountBelow, Umount, LuksClose, WriteFile, Pacstrap, Performs
<1> HIDE DEF do
<1>4. /\ do = "zap" => Zap
      /\ do = "new partitions" => NewPartitions
      /\ do = "mkfs efi" => MkfsEfi
      /\ do = "mkfs boot" => MkfsBoot
      /\ do = "luksFormat" => LuksFormat
      /\ do = "luksOpen" => LuksOpen
  BY <1>1, <1>2, <1>3 DEF DiskCommand
<1>5. /\ do = "mkfs root" => MkfsRoot
      /\ do = "create subvolumes" => CreateSubvolumes
      /\ do = "mount top" => MountTop
      /\ do = "mount root" => MountRoot
      /\ do = "mount subvolumes" => MountSubvolumes
      /\ do = "mount efi" => MountEfi
  BY <1>1, <1>2, <1>3 DEF DiskCommand
<1>6. /\ do = "mount boot" => MountBoot
      /\ do = "umount below" => UmountBelow
      /\ do = "umount" => Umount
      /\ do = "luksClose" => LuksClose
      /\ do = "write" => WriteFile
      /\ do = "chroot" => WriteFile
      /\ do = "pacstrap" => Pacstrap
  BY <1>1, <1>2, <1>3 DEF DiskCommand
<1> QED BY <1>4, <1>5, <1>6 DEF do

\* The queue of a story, command by command.
LEMMA QueueGoes ==
  /\ Queue(<<>>) => session.queue = <<>>
  /\ \A a : Queue(<<a>>) =>
       /\ session.queue # <<>> /\ Head(session.queue) = a
       /\ session'.queue = Tail(session.queue) => Queue(<<>>)'
  /\ \A a, b : Queue(<<a, b>>) =>
       /\ session.queue # <<>> /\ Head(session.queue) = a
       /\ session'.queue = Tail(session.queue) => Queue(<<b>>)'
  /\ \A a, b, c : Queue(<<a, b, c>>) =>
       /\ session.queue # <<>> /\ Head(session.queue) = a
       /\ session'.queue = Tail(session.queue) => Queue(<<b, c>>)'
  /\ \A a, b, c, d : Queue(<<a, b, c, d>>) =>
       /\ session.queue # <<>> /\ Head(session.queue) = a
       /\ session'.queue = Tail(session.queue) => Queue(<<b, c, d>>)'
  /\ \A a, b, c, d, e : Queue(<<a, b, c, d, e>>) =>
       /\ session.queue # <<>> /\ Head(session.queue) = a
       /\ session'.queue = Tail(session.queue) => Queue(<<b, c, d, e>>)'
  /\ \A a, b, c, d, e, f : Queue(<<a, b, c, d, e, f>>) =>
       /\ session.queue # <<>> /\ Head(session.queue) = a
       /\ session'.queue = Tail(session.queue) => Queue(<<b, c, d, e, f>>)'
<1>1. \A a : Queue(<<a>>) =>
        /\ session.queue # <<>> /\ Head(session.queue) = a
        /\ session'.queue = Tail(session.queue) => Queue(<<>>)'
  <2> SUFFICES ASSUME NEW a, Queue(<<a>>)
      PROVE  /\ session.queue # <<>> /\ Head(session.queue) = a
             /\ session'.queue = Tail(session.queue) => session'.queue = <<>>
    BY DEF Queue
  <2>1. session.queue = <<a>> BY DEF Queue
  <2>2. <<a>> # <<>> /\ Head(<<a>>) = a /\ Tail(<<a>>) = <<>> OBVIOUS
  <2> QED BY <2>1, <2>2, Zenon
<1>2. \A a, b : Queue(<<a, b>>) =>
        /\ session.queue # <<>> /\ Head(session.queue) = a
        /\ session'.queue = Tail(session.queue) => Queue(<<b>>)'
  <2> SUFFICES ASSUME NEW a, NEW b, Queue(<<a, b>>)
      PROVE  /\ session.queue # <<>> /\ Head(session.queue) = a
             /\ session'.queue = Tail(session.queue) => session'.queue = <<b>>
    BY DEF Queue
  <2>1. session.queue = <<a, b>> BY DEF Queue
  <2>2. <<a, b>> # <<>> /\ Head(<<a, b>>) = a /\ Tail(<<a, b>>) = <<b>> OBVIOUS
  <2> QED BY <2>1, <2>2, Zenon
<1>3. \A a, b, c : Queue(<<a, b, c>>) =>
        /\ session.queue # <<>> /\ Head(session.queue) = a
        /\ session'.queue = Tail(session.queue) => Queue(<<b, c>>)'
  <2> SUFFICES ASSUME NEW a, NEW b, NEW c, Queue(<<a, b, c>>)
      PROVE  /\ session.queue # <<>> /\ Head(session.queue) = a
             /\ session'.queue = Tail(session.queue) => session'.queue = <<b, c>>
    BY DEF Queue
  <2>1. session.queue = <<a, b, c>> BY DEF Queue
  <2>2. <<a, b, c>> # <<>> /\ Head(<<a, b, c>>) = a /\ Tail(<<a, b, c>>) = <<b, c>> OBVIOUS
  <2> QED BY <2>1, <2>2, Zenon
<1>4. \A a, b, c, d : Queue(<<a, b, c, d>>) =>
        /\ session.queue # <<>> /\ Head(session.queue) = a
        /\ session'.queue = Tail(session.queue) => Queue(<<b, c, d>>)'
  <2> SUFFICES ASSUME NEW a, NEW b, NEW c, NEW d, Queue(<<a, b, c, d>>)
      PROVE  /\ session.queue # <<>> /\ Head(session.queue) = a
             /\ session'.queue = Tail(session.queue) => session'.queue = <<b, c, d>>
    BY DEF Queue
  <2>1. session.queue = <<a, b, c, d>> BY DEF Queue
  <2>2. /\ <<a, b, c, d>> # <<>> /\ Head(<<a, b, c, d>>) = a
        /\ Tail(<<a, b, c, d>>) = <<b, c, d>>
    OBVIOUS
  <2> QED BY <2>1, <2>2, Zenon
<1>5. \A a, b, c, d, e : Queue(<<a, b, c, d, e>>) =>
        /\ session.queue # <<>> /\ Head(session.queue) = a
        /\ session'.queue = Tail(session.queue) => Queue(<<b, c, d, e>>)'
  <2> SUFFICES ASSUME NEW a, NEW b, NEW c, NEW d, NEW e, Queue(<<a, b, c, d, e>>)
      PROVE  /\ session.queue # <<>> /\ Head(session.queue) = a
             /\ session'.queue = Tail(session.queue) => session'.queue = <<b, c, d, e>>
    BY DEF Queue
  <2>1. session.queue = <<a, b, c, d, e>> BY DEF Queue
  <2>2. /\ <<a, b, c, d, e>> # <<>> /\ Head(<<a, b, c, d, e>>) = a
        /\ Tail(<<a, b, c, d, e>>) = <<b, c, d, e>>
    OBVIOUS
  <2> QED BY <2>1, <2>2, Zenon
<1>6. \A a, b, c, d, e, f : Queue(<<a, b, c, d, e, f>>) =>
        /\ session.queue # <<>> /\ Head(session.queue) = a
        /\ session'.queue = Tail(session.queue) => Queue(<<b, c, d, e, f>>)'
  <2> SUFFICES ASSUME NEW a, NEW b, NEW c, NEW d, NEW e, NEW f, Queue(<<a, b, c, d, e, f>>)
      PROVE  /\ session.queue # <<>> /\ Head(session.queue) = a
             /\ session'.queue = Tail(session.queue) => session'.queue = <<b, c, d, e, f>>
    BY DEF Queue
  <2>1. session.queue = <<a, b, c, d, e, f>> BY DEF Queue
  <2>2. /\ <<a, b, c, d, e, f>> # <<>> /\ Head(<<a, b, c, d, e, f>>) = a
        /\ Tail(<<a, b, c, d, e, f>>) = <<b, c, d, e, f>>
    OBVIOUS
  <2> QED BY <2>1, <2>2, Zenon
<1>7. Queue(<<>>) => session.queue = <<>> BY DEF Queue
<1> QED BY <1>1, <1>2, <1>3, <1>4, <1>5, <1>6, <1>7

----------------------------------------------------------------------------
(* From command to command *)

LEMMA BusyFacts ==
  ASSUME Busy
  PROVE  /\ session \in Session /\ session.disk \in Disks /\ session.disk # NoDisk
         /\ session.encrypt \in BOOLEAN /\ efi \in BOOLEAN
         /\ content \in [Disks -> Content] /\ content[session.disk] \in Content
         /\ session.queue # <<>> /\ session.stage = "run"
<1>1. /\ session \in Session /\ efi \in BOOLEAN /\ content \in [Disks -> Content]
  BY DEF Busy, InstallInv, InstallerTypeOK
<1>2. session.disk \in Disks /\ session.disk # NoDisk
  BY <1>1, SessionFields DEF Busy, RealInstall
<1> QED BY <1>1, <1>2, SessionFields DEF Busy

LEMMA PutFacts ==
  ASSUME Busy, NEW new, Put(Disk, new)
  PROVE  content'[session.disk] = new
BY BusyFacts DEF Put, Disk

LEMMA PartitionStory ==
  ASSUME Busy, Story1
  PROVE  Possible(Head(session.queue)) /\ (Went => Story1')
<1>1. CASE Queue(<<Run("zap"), Run("new partitions")>>)
  <2>1. /\ Head(session.queue) = Run("zap")
        /\ session'.queue = Tail(session.queue) => Queue(<<Run("new partitions")>>)'
    BY <1>1, QueueGoes
  <2>2. Possible(Head(session.queue)) BY <2>1, CommandFields, Needs
  <2>3. ASSUME Went PROVE Story1'
    <3>1. Zap BY <2>1, <2>2, <2>3, CommandFields, Effects DEF Went
    <3>2. mnt' = mnt /\ mapper' = mapper /\ bare' = bare BY <3>1 DEF Zap
    <3> QED BY <2>1, <2>3, <3>2 DEF Story1, Shut, Off, Went
  <2> QED BY <2>2, <2>3
<1>2. CASE Queue(<<Run("new partitions")>>)
  <2>1. /\ Head(session.queue) = Run("new partitions")
        /\ session'.queue = Tail(session.queue) => Queue(<<>>)'
    BY <1>2, QueueGoes
  <2>2. Possible(Head(session.queue)) BY <2>1, CommandFields, Needs
  <2>3. ASSUME Went PROVE Story1'
    <3>1. NewPartitions BY <2>1, <2>2, <2>3, CommandFields, Effects DEF Went
    <3>2. mnt' = mnt /\ mapper' = mapper /\ bare' = bare BY <3>1 DEF NewPartitions
    <3>3. content'[session.disk].parts
      BY <3>1, PutFacts, BusyFacts DEF NewPartitions, Content, Disk
    <3> QED BY <2>1, <2>3, <3>2, <3>3 DEF Story1, Shut, Off, Went, Disk
  <2> QED BY <2>2, <2>3
<1> QED BY <1>1, <1>2, BusyFacts, QueueGoes DEF Story1

\* Nothing of an unmounted disk is in use.
LEMMA OffUnused ==
  ASSUME Busy, Off
  PROVE  /\ ~RootInUse(session.disk)
         /\ \A i \in DOMAIN mnt : mnt[i].efi # session.disk /\ mnt[i].boot # session.disk
BY BusyFacts, OffFacts DEF RootInUse

LEMMA KeyFacts ==
  ASSUME Busy, mapper = Key
  PROVE  /\ RootDevice = session.disk /\ RootDevice # NoDisk
         /\ session.encrypt \/ mapper # Disk
BY BusyFacts DEF Key, RootDevice, Disk

\* What the commands on the disk do to it.
LEMMA DiskEffects ==
  ASSUME Busy, NEW old, NEW new, old = content[session.disk], new = content'[session.disk]
  PROVE  /\ NewPartitions => new.parts
         /\ MkfsEfi => new.esp = {"fat"} /\ new.parts = old.parts
         /\ MkfsBoot => new.boot = {"ext4"} /\ new.parts = old.parts /\ new.esp = old.esp
         /\ LuksFormat =>
              /\ new.luks /\ new.parts = old.parts /\ new.boot = old.boot
              /\ new.esp = old.esp
         /\ MkfsRoot /\ RootDevice = session.disk =>
              /\ new.luks = session.encrypt /\ new.btrfs = "made" /\ new.files = {}
              /\ new.parts = old.parts /\ new.boot = old.boot /\ new.esp = old.esp
         /\ CreateSubvolumes /\ Top.disk = session.disk =>
              /\ new.btrfs = "ready" /\ new.luks = old.luks /\ new.files = old.files
              /\ new.parts = old.parts /\ new.boot = old.boot /\ new.esp = old.esp
<1>1. old \in Content BY BusyFacts
<1>2. NewPartitions => new.parts BY <1>1, PutFacts DEF NewPartitions, Content, Disk
<1>3. MkfsEfi => new.esp = {"fat"} /\ new.parts = old.parts
  BY <1>1, PutFacts DEF MkfsEfi, Content, Disk
<1>4. MkfsBoot => new.boot = {"ext4"} /\ new.parts = old.parts /\ new.esp = old.esp
  BY <1>1, PutFacts DEF MkfsBoot, Content, Disk
<1>5. LuksFormat =>
        /\ new.luks /\ new.parts = old.parts /\ new.boot = old.boot
        /\ new.esp = old.esp
  BY <1>1, PutFacts DEF LuksFormat, Content, Disk
<1>6. MkfsRoot /\ RootDevice = session.disk =>
        /\ new.luks = session.encrypt /\ new.btrfs = "made" /\ new.files = {}
        /\ new.parts = old.parts /\ new.boot = old.boot /\ new.esp = old.esp
  <2> SUFFICES ASSUME MkfsRoot, RootDevice = session.disk
      PROVE  /\ new.luks = session.encrypt /\ new.btrfs = "made" /\ new.files = {}
             /\ new.parts = old.parts /\ new.boot = old.boot /\ new.esp = old.esp
    OBVIOUS
  <2>1. Put(Disk, [old EXCEPT !.luks = session.encrypt, !.btrfs = "made", !.files = {}])
    BY DEF MkfsRoot, Disk
  <2>2. new = [old EXCEPT !.luks = session.encrypt, !.btrfs = "made", !.files = {}]
    BY <2>1, PutFacts
  <2> QED BY <1>1, <2>2 DEF Content
<1>7. CreateSubvolumes /\ Top.disk = session.disk =>
        /\ new.btrfs = "ready" /\ new.luks = old.luks /\ new.files = old.files
        /\ new.parts = old.parts /\ new.boot = old.boot /\ new.esp = old.esp
  <2> SUFFICES ASSUME CreateSubvolumes, Top.disk = session.disk
      PROVE  /\ new.btrfs = "ready" /\ new.luks = old.luks /\ new.files = old.files
             /\ new.parts = old.parts /\ new.boot = old.boot /\ new.esp = old.esp
    OBVIOUS
  <2>1. Put(Disk, [old EXCEPT !.btrfs = "ready"]) BY DEF CreateSubvolumes, Disk
  <2>2. new = [old EXCEPT !.btrfs = "ready"] BY <2>1, PutFacts
  <2> QED BY <1>1, <2>2 DEF Content
<1> QED BY <1>2, <1>3, <1>4, <1>5, <1>6, <1>7

LEMMA FormatStory ==
  ASSUME Busy, Story2
  PROVE  Possible(Head(session.queue)) /\ (Went => Story2')
<1>1. CASE efi /\ Queue(<<Run("mkfs efi"), Run("mkfs boot")>>)
  <2>1. /\ Head(session.queue) = Run("mkfs efi")
        /\ session'.queue = Tail(session.queue) => Queue(<<Run("mkfs boot")>>)'
    BY <1>1, QueueGoes
  <2>2. content[Disk].parts /\ \A i \in DOMAIN mnt : mnt[i].efi # Disk
    BY <1>1, OffUnused DEF Story2, Shut, Disk
  <2>3. Possible(Head(session.queue)) BY <2>1, <2>2, CommandFields, Needs
  <2>4. ASSUME Went PROVE Story2'
    <3>1. MkfsEfi BY <2>1, <2>3, <2>4, CommandFields, Effects DEF Went
    <3>2. mnt' = mnt /\ mapper' = mapper /\ bare' = bare BY <3>1 DEF MkfsEfi
    <3>3. content'[session.disk].esp = {"fat"} /\ content'[session.disk].parts
      BY <2>2, <3>1, DiskEffects DEF Disk
    <3> QED BY <1>1, <2>1, <2>4, <3>2, <3>3 DEF Story2, Shut, Off, Went, Disk
  <2> QED BY <2>3, <2>4
<1>2. CASE (efi => content[Disk].esp = {"fat"}) /\ Queue(<<Run("mkfs boot")>>)
  <2>1. /\ Head(session.queue) = Run("mkfs boot")
        /\ session'.queue = Tail(session.queue) => Queue(<<>>)'
    BY <1>2, QueueGoes
  <2>2. content[Disk].parts /\ \A i \in DOMAIN mnt : mnt[i].boot # Disk
    BY <1>2, OffUnused DEF Story2, Shut, Disk
  <2>3. Possible(Head(session.queue)) BY <2>1, <2>2, CommandFields, Needs
  <2>4. ASSUME Went PROVE Story2'
    <3>1. MkfsBoot BY <2>1, <2>3, <2>4, CommandFields, Effects DEF Went
    <3>2. mnt' = mnt /\ mapper' = mapper /\ bare' = bare BY <3>1 DEF MkfsBoot
    <3>3. /\ content'[session.disk].boot = {"ext4"} /\ content'[session.disk].parts
          /\ content'[session.disk].esp = content[session.disk].esp
      BY <2>2, <3>1, DiskEffects DEF Disk
    <3> QED BY <1>2, <2>1, <2>4, <3>2, <3>3 DEF Story2, Shut, Off, Went, Disk, Formatted
  <2> QED BY <2>3, <2>4
<1> QED BY <1>1, <1>2, BusyFacts, QueueGoes DEF Story2

LEMMA LuksStory ==
  ASSUME Busy, Story3
  PROVE  Possible(Head(session.queue)) /\ (Went => Story3')
<1>1. CASE /\ session.encrypt /\ mapper = NoDisk
           /\ Queue(<<Run("luksFormat"), Run("luksOpen")>>)
  <2>1. /\ Head(session.queue) = Run("luksFormat")
        /\ session'.queue = Tail(session.queue) => Queue(<<Run("luksOpen")>>)'
    BY <1>1, QueueGoes
  <2>2. content[Disk].parts /\ mapper # Disk /\ ~RootInUse(Disk)
    BY <1>1, BusyFacts, OffUnused DEF Story3, Disk, Formatted
  <2>3. Possible(Head(session.queue)) BY <2>1, <2>2, CommandFields, Needs
  <2>4. ASSUME Went PROVE Story3'
    <3>1. LuksFormat BY <2>1, <2>3, <2>4, CommandFields, Effects DEF Went
    <3>2. mnt' = mnt /\ mapper' = mapper /\ bare' = bare BY <3>1 DEF LuksFormat
    <3>3. /\ content'[session.disk].luks
          /\ content'[session.disk].parts = content[session.disk].parts
          /\ content'[session.disk].boot = content[session.disk].boot
          /\ content'[session.disk].esp = content[session.disk].esp
      BY <3>1, DiskEffects
    <3>4. Formatted' BY <2>4, <3>3 DEF Story3, Formatted, Disk, Went
    <3> QED BY <1>1, <2>1, <2>4, <3>2, <3>3, <3>4 DEF Story3, Off, Went, Disk
  <2> QED BY <2>3, <2>4
<1>2. CASE /\ session.encrypt /\ mapper = NoDisk /\ content[Disk].luks
           /\ Queue(<<Run("luksOpen")>>)
  <2>1. /\ Head(session.queue) = Run("luksOpen")
        /\ session'.queue = Tail(session.queue) => Queue(<<>>)'
    BY <1>2, QueueGoes
  <2>2. mapper = NoDisk /\ content[Disk].luks BY <1>2
  <2>3. Possible(Head(session.queue)) BY <2>1, <2>2, CommandFields, Needs
  <2>4. ASSUME Went PROVE Story3'
    <3>1. LuksOpen BY <2>1, <2>3, <2>4, CommandFields, Effects DEF Went
    <3>2. mnt' = mnt /\ content' = content /\ bare' = bare BY <3>1 DEF LuksOpen
    <3>3. mapper' = session.disk BY <3>1 DEF LuksOpen, Disk
    <3>4. Formatted' BY <2>4, <3>2 DEF Story3, Formatted, Disk, Went
    <3> QED BY <1>2, <2>1, <2>4, <3>2, <3>3, <3>4 DEF Story3, Off, Went, Disk, Key
  <2> QED BY <2>3, <2>4
<1> QED BY <1>1, <1>2, BusyFacts, QueueGoes DEF Story3

\* What the commands on the mounts do to them.
LEMMA MountEffects ==
  ASSUME Busy, NEW subvolume, NEW x, NEW y
  PROVE  /\ MountTop /\ Off /\ RootDevice = session.disk =>
              mnt' = Laid(Layered(session.disk, "top", NoDisk, NoDisk))
         /\ MountRoot /\ Off /\ RootDevice = session.disk =>
              mnt' = Laid(Layered(session.disk, "@", NoDisk, NoDisk))
         /\ MountEfi /\ On(subvolume, x, y) =>
              mnt' = Laid(Layered(session.disk, subvolume, session.disk, y))
         /\ MountBoot /\ On(subvolume, x, y) =>
              mnt' = Laid(Layered(session.disk, subvolume, x, session.disk))
         /\ UmountBelow /\ On(subvolume, x, y) =>
              mnt' = Laid(Layered(session.disk, subvolume, NoDisk, NoDisk))
         /\ Umount /\ On(subvolume, x, y) => mnt' = <<LiveDirectory>>
<1>1. MountTop /\ Off /\ RootDevice = session.disk =>
        mnt' = Laid(Layered(session.disk, "top", NoDisk, NoDisk))
  BY OffFacts DEF MountTop, Push, Layered
<1>2. MountRoot /\ Off /\ RootDevice = session.disk =>
        mnt' = Laid(Layered(session.disk, "@", NoDisk, NoDisk))
  BY OffFacts DEF MountRoot, Push, Layered
<1>3. ASSUME On(subvolume, x, y)
      PROVE  /\ Top = Layered(session.disk, subvolume, x, y)
             /\ \A l : [mnt EXCEPT ![Len(mnt)] = l] = Laid(l)
  BY <1>3, OnFacts DEF Disk
<1>4. ASSUME NEW d, NEW l, l = Layered(d, subvolume, x, y)
      PROVE  /\ [l EXCEPT !.efi = d] = Layered(d, subvolume, d, y)
             /\ [l EXCEPT !.boot = d] = Layered(d, subvolume, x, d)
             /\ [l EXCEPT !.efi = NoDisk, !.boot = NoDisk]
                  = Layered(d, subvolume, NoDisk, NoDisk)
  <2>1. l = [disk |-> d, subvolume |-> subvolume, efi |-> x, boot |-> y]
    BY <1>4 DEF Layered
  <2>2. [l EXCEPT !.efi = d] = [disk |-> d, subvolume |-> subvolume, efi |-> d, boot |-> y]
    BY <2>1
  <2>3. [l EXCEPT !.boot = d] = [disk |-> d, subvolume |-> subvolume, efi |-> x, boot |-> d]
    BY <2>1
  <2>4. [l EXCEPT !.efi = NoDisk, !.boot = NoDisk]
          = [disk |-> d, subvolume |-> subvolume, efi |-> NoDisk, boot |-> NoDisk]
    <3> DEFINE m == [disk |-> d, subvolume |-> subvolume, efi |-> NoDisk, boot |-> y]
    <3>1. [l EXCEPT !.efi = NoDisk] = m BY <2>1
    <3>2. [m EXCEPT !.boot = NoDisk]
            = [disk |-> d, subvolume |-> subvolume, efi |-> NoDisk, boot |-> NoDisk]
      OBVIOUS
    <3> HIDE DEF m
    <3>3. [l EXCEPT !.efi = NoDisk, !.boot = NoDisk] = [m EXCEPT !.boot = NoDisk]
      BY <3>1
    <3> QED BY <3>2, <3>3
  <2> QED BY <2>2, <2>3, <2>4 DEF Layered
<1>5. MountEfi /\ On(subvolume, x, y) =>
        mnt' = Laid(Layered(session.disk, subvolume, session.disk, y))
  BY <1>3, <1>4 DEF MountEfi, SetTop, Disk
<1>6. MountBoot /\ On(subvolume, x, y) =>
        mnt' = Laid(Layered(session.disk, subvolume, x, session.disk))
  BY <1>3, <1>4 DEF MountBoot, SetTop, Disk
<1>7. UmountBelow /\ On(subvolume, x, y) =>
        mnt' = Laid(Layered(session.disk, subvolume, NoDisk, NoDisk))
  BY <1>3, <1>4 DEF UmountBelow, SetTop
<1>8. Umount /\ On(subvolume, x, y) => mnt' = <<LiveDirectory>>
  BY OnFacts DEF Umount
<1> QED BY <1>1, <1>2, <1>5, <1>6, <1>7, <1>8

\* The mapping, the partitions and the mounts of a story, unchanged.
LEMMA KeyStays ==
  ASSUME mapper = Key, mapper' = mapper, Went PROVE (mapper = Key)'
BY DEF Key, Went, Disk

LEMMA FormattedStays ==
  ASSUME Formatted, Went, content'[session.disk].parts = content[session.disk].parts,
         content'[session.disk].boot = content[session.disk].boot,
         content'[session.disk].esp = content[session.disk].esp
  PROVE  Formatted'
BY DEF Formatted, Went, Disk

LEMMA BtrfsStory ==
  ASSUME Busy, Story4
  PROVE  Possible(Head(session.queue)) /\ (Went => Story4')
<1>0. bare = {} /\ Formatted /\ mapper = Key BY DEF Story4
<1>1. CASE /\ Off /\ (session.encrypt => content[Disk].luks)
           /\ Queue(<<Run("mkfs root"), Run("mount top"), Run("create subvolumes"),
                      Run("umount")>>)
  <2>1. /\ Head(session.queue) = Run("mkfs root")
        /\ session'.queue = Tail(session.queue) =>
             Queue(<<Run("mount top"), Run("create subvolumes"), Run("umount")>>)'
    BY <1>1, QueueGoes
  <2>2. RootDevice = session.disk /\ RootDevice # NoDisk /\ (session.encrypt \/ mapper # Disk)
    BY <1>1, KeyFacts, <1>0
  <2>3. content[Disk].parts /\ ~RootInUse(session.disk)
    BY <1>1, OffUnused, <1>0 DEF Formatted
  <2>4. Possible(Head(session.queue)) BY <2>1, <2>2, <2>3, CommandFields, Needs
  <2>5. ASSUME Went PROVE Story4'
    <3>1. MkfsRoot BY <2>1, <2>4, <2>5, CommandFields, Effects DEF Went
    <3>2. mnt' = mnt /\ mapper' = mapper /\ bare' = bare BY <3>1 DEF MkfsRoot
    <3>3. /\ content'[session.disk].parts = content[session.disk].parts
          /\ content'[session.disk].boot = content[session.disk].boot
          /\ content'[session.disk].esp = content[session.disk].esp
          /\ content'[session.disk].luks = session.encrypt
          /\ content'[session.disk].btrfs = "made" /\ content'[session.disk].files = {}
      BY <2>2, <3>1, DiskEffects
    <3>4. Formatted' BY <2>5, <3>3, FormattedStays, <1>0
    <3>5. (mapper = Key)' BY <2>5, <3>2, KeyStays, <1>0
    <3>6. Made("made")' BY <2>5, <3>3 DEF Made, Went, Disk
    <3>7. Off' BY <1>1, <3>2 DEF Off
    <3>8. Queue(<<Run("mount top"), Run("create subvolumes"), Run("umount")>>)'
      BY <2>1, <2>5 DEF Went
    <3>9. bare' = {} BY <1>0, <3>2
    <3> QED BY <3>3, <3>4, <3>5, <3>6, <3>7, <3>8, <3>9 DEF Story4, Off
  <2> QED BY <2>4, <2>5
<1>2. CASE /\ Off /\ Made("made")
           /\ Queue(<<Run("mount top"), Run("create subvolumes"), Run("umount")>>)
  <2>1. /\ Head(session.queue) = Run("mount top")
        /\ session'.queue = Tail(session.queue) =>
             Queue(<<Run("create subvolumes"), Run("umount")>>)'
    BY <1>2, QueueGoes
  <2>2. RootDevice = session.disk /\ RootDevice # NoDisk BY <1>2, KeyFacts, <1>0
  <2>3. HasRoot({"made", "ready"}) BY <1>2, <2>2 DEF HasRoot, Made, Disk
  <2>4. Possible(Head(session.queue)) BY <2>1, <2>2, <2>3, CommandFields, Needs
  <2>5. ASSUME Went PROVE Story4'
    <3>1. MountTop BY <2>1, <2>4, <2>5, CommandFields, Effects DEF Went
    <3>2. content' = content /\ mapper' = mapper /\ bare' = bare BY <3>1 DEF MountTop
    <3>3. Formatted' BY <2>5, <3>2, FormattedStays, <1>0
    <3>4. (mapper = Key)' BY <2>5, <3>2, KeyStays, <1>0
    <3>5. Made("made")' BY <1>2, <2>5, <3>2 DEF Made, Went, Disk
    <3>6. mnt' = Laid(Layered(session.disk, "top", NoDisk, NoDisk))
      BY <1>2, <2>2, <3>1, MountEffects
    <3>7. On("top", NoDisk, NoDisk)' BY <2>5, <3>6 DEF On, Went, Disk
    <3>8. Queue(<<Run("create subvolumes"), Run("umount")>>)' BY <2>1, <2>5 DEF Went
    <3>9. bare' = {} BY <1>0, <3>2
    <3> QED BY <3>3, <3>4, <3>5, <3>6, <3>7, <3>8, <3>9 DEF Story4
  <2> QED BY <2>4, <2>5
<1>3. CASE /\ On("top", NoDisk, NoDisk) /\ Made("made")
           /\ Queue(<<Run("create subvolumes"), Run("umount")>>)
  <2>1. /\ Head(session.queue) = Run("create subvolumes")
        /\ session'.queue = Tail(session.queue) => Queue(<<Run("umount")>>)'
    BY <1>3, QueueGoes
  <2>2. Top.disk = session.disk BY <1>3, OnFacts DEF Disk
  <2>3. Possible(Head(session.queue)) BY <2>1, <2>2, CommandFields, Needs
  <2>4. ASSUME Went PROVE Story4'
    <3>1. CreateSubvolumes BY <2>1, <2>3, <2>4, CommandFields, Effects DEF Went
    <3>2. mnt' = mnt /\ mapper' = mapper /\ bare' = bare BY <3>1 DEF CreateSubvolumes
    <3>3. /\ content'[session.disk].parts = content[session.disk].parts
          /\ content'[session.disk].boot = content[session.disk].boot
          /\ content'[session.disk].esp = content[session.disk].esp
          /\ content'[session.disk].luks = content[session.disk].luks
          /\ content'[session.disk].files = content[session.disk].files
          /\ content'[session.disk].btrfs = "ready"
      BY <2>2, <3>1, DiskEffects
    <3>4. Formatted' BY <2>4, <3>3, FormattedStays, <1>0
    <3>5. (mapper = Key)' BY <2>4, <3>2, KeyStays, <1>0
    <3>6. Made("ready")' BY <1>3, <2>4, <3>3 DEF Made, Went, Disk
    <3>7. On("top", NoDisk, NoDisk)' BY <1>3, <2>4, <3>2 DEF On, Went, Disk
    <3>8. Queue(<<Run("umount")>>)' BY <2>1, <2>4 DEF Went
    <3>9. bare' = {} BY <1>0, <3>2
    <3> QED BY <3>3, <3>4, <3>5, <3>6, <3>7, <3>8, <3>9 DEF Story4
  <2> QED BY <2>3, <2>4
<1>4. CASE On("top", NoDisk, NoDisk) /\ Made("ready") /\ Queue(<<Run("umount")>>)
  <2>1. /\ Head(session.queue) = Run("umount")
        /\ session'.queue = Tail(session.queue) => Queue(<<>>)'
    BY <1>4, QueueGoes
  <2>2. IsMounted BY <1>4, OnFacts
  <2>3. Possible(Head(session.queue)) BY <2>1, <2>2, CommandFields, Needs
  <2>4. ASSUME Went PROVE Story4'
    <3>1. Umount BY <2>1, <2>3, <2>4, CommandFields, Effects DEF Went
    <3>2. content' = content /\ mapper' = mapper /\ bare' = bare BY <3>1 DEF Umount
    <3>3. Formatted' BY <2>4, <3>2, FormattedStays, <1>0
    <3>4. (mapper = Key)' BY <2>4, <3>2, KeyStays, <1>0
    <3>5. Made("ready")' BY <1>4, <2>4, <3>2 DEF Made, Went, Disk
    <3>6. mnt' = <<LiveDirectory>> BY <1>4, <3>1, MountEffects
    <3>7. Queue(<<>>)' BY <2>1, <2>4 DEF Went
    <3>8. bare' = {} BY <1>0, <3>2
    <3> QED BY <3>3, <3>4, <3>5, <3>6, <3>7, <3>8 DEF Story4, Off
  <2> QED BY <2>3, <2>4
<1> QED BY <1>1, <1>2, <1>3, <1>4, BusyFacts, QueueGoes DEF Story4

\* A file goes to the disk that is mounted.
LEMMA StoreEffects ==
  ASSUME Busy, NEW f \in Files, NEW x, NEW y, On("@", x, y), x = NoDisk \/ f \notin {"loader", "entries"},
         Store(f), NEW old, NEW new,
         old = content[session.disk], new = content'[session.disk]
  PROVE  /\ bare' = bare /\ new.parts = old.parts /\ new.boot = old.boot
         /\ new.esp = old.esp /\ new.luks = old.luks /\ new.btrfs = old.btrfs
         /\ Lying(new) = Lying(old) \cup {f}
<1>1. old \in Content BY BusyFacts
<1>2. IsMounted /\ Top.disk = Disk /\ Top.subvolume = "@" /\ Top.efi = x
  BY OnFacts
<1>3. ~(f \in {"loader", "entries"} /\ Top.efi # NoDisk) BY <1>2
<1>4. /\ Put(Top.disk, [content[Top.disk] EXCEPT !.files = @ \cup {<<Top.subvolume, f>>}])
      /\ bare' = bare
  BY <1>2, <1>3 DEF Store
<1> DEFINE files == old.files \cup {<<"@", f>>}
<1>5. Put(Disk, [old EXCEPT !.files = files]) BY <1>2, <1>4 DEF Disk
<1>6. new = [old EXCEPT !.files = files] BY <1>5, PutFacts
<1>7. \A g \in Files : <<"@", g>> \in files <=> <<"@", g>> \in old.files \/ g = f
  OBVIOUS
<1> HIDE DEF files
<1>8. /\ new.parts = old.parts /\ new.boot = old.boot /\ new.esp = old.esp
      /\ new.luks = old.luks /\ new.btrfs = old.btrfs /\ new.files = files
  BY <1>1, <1>6 DEF Content
<1>9. Lying(new) = Lying(old) \cup {f} BY <1>7, <1>8 DEF Lying
<1> QED BY <1>4, <1>8, <1>9

\* So does the base system, and its kernel to the file system of /boot.
LEMMA PacstrapEffects ==
  ASSUME Busy, NEW x, On("@", x, Disk), Pacstrap, NEW old, NEW new,
         old = content[session.disk], new = content'[session.disk]
  PROVE  /\ bare' = bare /\ new.parts = old.parts /\ new.boot = old.boot \cup {"kernel"}
         /\ new.esp = old.esp /\ new.luks = old.luks /\ new.btrfs = old.btrfs
         /\ Lying(new) = Lying(old) \cup {"packages"}
<1>1. /\ content \in [Disks -> Content] /\ session.disk \in Disks BY BusyFacts
<1>2. /\ IsMounted /\ Top.disk = session.disk /\ Top.subvolume = "@"
      /\ Top.boot = session.disk
  BY OnFacts DEF Disk
<1>3. bare' = bare BY <1>2 DEF Pacstrap
<1>4. /\ new.parts = old.parts /\ new.boot = old.boot \cup {"kernel"}
      /\ new.esp = old.esp /\ new.luks = old.luks /\ new.btrfs = old.btrfs
      /\ new.files = old.files \cup {<<"@", "packages">>}
  <2>1. /\ Packages(session.disk) = {<<"@", "packages">>}
        /\ Kernel(session.disk) = {"kernel"}
    BY <1>2 DEF Packages, Kernel
  <2>2. InstallInv BY DEF Busy
  <2> QED BY <1>1, <2>1, <2>2, PacstrapTypes
<1>5. \A g \in Files : <<"@", g>> \in new.files
        <=> <<"@", g>> \in old.files \/ g = "packages"
  BY <1>4
<1>6. "packages" \in Files BY DEF Files
<1> HIDE DEF Files
<1>7. Lying(new) = Lying(old) \cup {"packages"} BY <1>5, <1>6 DEF Lying
<1> QED BY <1>3, <1>4, <1>7

LEMMA BaseStays ==
  ASSUME Base, Went, NEW old, NEW new,
         old = content[session.disk], new = content'[session.disk],
         new.parts = old.parts, old.boot \subseteq new.boot, new.esp = old.esp,
         new.luks = old.luks, new.btrfs = old.btrfs,
         "grub" \notin Lying(new) /\ "grub.cfg" \notin Lying(new),
         "packages" \in Lying(new) => "kernel" \in new.boot
  PROVE  Base'
<1>1. Formatted' BY DEF Base, Formatted, Went, Disk
<1>2. Rooted' BY DEF Base, Rooted, Went, Disk
<1>3. Held' = Lying(new) /\ content'[session'.disk] = new BY DEF Held, Went, Disk
<1> QED BY <1>1, <1>2, <1>3 DEF Base, Grubless, Disk

LEMMA BaseHolds ==
  ASSUME Base, NEW old, old = content[session.disk]
  PROVE  /\ Held = Lying(old) /\ "grub" \notin Lying(old) /\ "grub.cfg" \notin Lying(old)
         /\ "packages" \in Lying(old) => "kernel" \in old.boot
<1>1. Held = Lying(old) /\ content[Disk] = old BY DEF Held, Disk
<1> QED BY <1>1 DEF Base, Grubless

LEMMA BaseUntouched ==
  ASSUME Base, Went, content' = content PROVE Base' /\ Held' = Held
<1> DEFINE old == content[session.disk]
<1>1. /\ "grub" \notin Lying(old) /\ "grub.cfg" \notin Lying(old)
      /\ "packages" \in Lying(old) => "kernel" \in old.boot
  BY BaseHolds
<1>2. old = content[session.disk] /\ old = content'[session.disk] OBVIOUS
<1> HIDE DEF old
<1>3. Base' BY <1>1, <1>2, BaseStays
<1>4. Held' = Held BY DEF Held, Went, Disk
<1> QED BY <1>3, <1>4

LEMMA BaseFiled ==
  ASSUME Busy, Went, Base, NEW f \in Files, f \notin {"packages", "grub", "grub.cfg"},
         NEW x, NEW y, On("@", x, y), x = NoDisk \/ f \notin {"loader", "entries"}, Store(f)
  PROVE  Base' /\ Held' = Held \cup {f} /\ bare' = bare
<1> DEFINE old == content[session.disk]
           new == content'[session.disk]
<1>1. old = content[session.disk] /\ new = content'[session.disk] OBVIOUS
<1>2. /\ Held = Lying(old) /\ "grub" \notin Lying(old) /\ "grub.cfg" \notin Lying(old)
      /\ "packages" \in Lying(old) => "kernel" \in old.boot
  BY BaseHolds
<1>3. Held' = Lying(new) BY DEF Went, Held, Disk
<1> HIDE DEF old, new
<1>4. /\ bare' = bare /\ new.parts = old.parts /\ new.boot = old.boot
      /\ new.esp = old.esp /\ new.luks = old.luks /\ new.btrfs = old.btrfs
      /\ Lying(new) = Lying(old) \cup {f}
  BY <1>1, StoreEffects
<1>5. /\ "grub" \notin Lying(new) /\ "grub.cfg" \notin Lying(new)
      /\ "packages" \in Lying(new) => "kernel" \in new.boot
      /\ old.boot \subseteq new.boot
  BY <1>2, <1>4
<1>6. Base' BY <1>1, <1>4, <1>5, BaseStays
<1> QED BY <1>2, <1>3, <1>4, <1>6

LEMMA BasePacked ==
  ASSUME Busy, Went, Base, NEW x, On("@", x, Disk), Pacstrap
  PROVE  Base' /\ Held' = Held \cup {"packages"} /\ bare' = bare
<1> DEFINE old == content[session.disk]
           new == content'[session.disk]
<1>1. old = content[session.disk] /\ new = content'[session.disk] OBVIOUS
<1>2. Held = Lying(old) /\ "grub" \notin Lying(old) /\ "grub.cfg" \notin Lying(old)
  BY BaseHolds
<1>3. Held' = Lying(new) BY DEF Went, Held, Disk
<1> HIDE DEF old, new
<1>4. /\ bare' = bare /\ new.parts = old.parts /\ new.boot = old.boot \cup {"kernel"}
      /\ new.esp = old.esp /\ new.luks = old.luks /\ new.btrfs = old.btrfs
      /\ Lying(new) = Lying(old) \cup {"packages"}
  BY <1>1, PacstrapEffects
<1>5. /\ "grub" \notin Lying(new) /\ "grub.cfg" \notin Lying(new)
      /\ "kernel" \in new.boot /\ old.boot \subseteq new.boot
  BY <1>2, <1>4
<1>6. Base' BY <1>1, <1>4, <1>5, BaseStays
<1> QED BY <1>2, <1>3, <1>4, <1>6

LEMMA EspStays == ASSUME Went PROVE session'.disk = session.disk /\ Esp' = Esp /\ efi' = efi
BY DEF Esp, Went, Disk

LEMMA SomeFiles ==
  /\ "efi" \in Files /\ "boot" \in Files /\ "packages" \in Files /\ "entries" \in Files
  /\ "loader" \in Files /\ "grub" \in Files /\ "grub.cfg" \in Files /\ "grub defaults" \in Files /\ "firstboot service" \in Files
BY DEF Files

LEMMA MountStory ==
  ASSUME Busy, Story5
  PROVE  Possible(Head(session.queue)) /\ (Went => Story5')
<1>0. bare = {} /\ Base /\ mapper = Key BY DEF Story5
<1>1. CASE /\ Off /\ efi
           /\ Queue(<<Run("mount root"), Run("mount subvolumes"), Write("efi"),
                      Run("mount efi"), Write("boot"), Run("mount boot")>>)
  <2>1. /\ Head(session.queue) = Run("mount root")
        /\ session'.queue = Tail(session.queue) =>
             Queue(<<Run("mount subvolumes"), Write("efi"), Run("mount efi"),
                     Write("boot"), Run("mount boot")>>)'
    BY <1>1, QueueGoes
  <2>2. RootDevice = session.disk /\ RootDevice # NoDisk BY <1>1, KeyFacts, <1>0
  <2>3. HasRoot({"ready"}) BY <1>1, <2>2, <1>0 DEF HasRoot, Base, Rooted, Disk
  <2>4. Possible(Head(session.queue)) BY <2>1, <2>2, <2>3, CommandFields, Needs
  <2>5. ASSUME Went PROVE Story5'
    <3>1. MountRoot BY <2>1, <2>4, <2>5, CommandFields, Effects DEF Went
    <3>2. content' = content /\ mapper' = mapper /\ bare' = bare BY <3>1 DEF MountRoot
    <3>3. Base' BY <2>5, <3>2, BaseUntouched, <1>0
    <3>4. (mapper = Key)' BY <2>5, <3>2, KeyStays, <1>0
    <3>5. mnt' = Laid(Layered(session.disk, "@", NoDisk, NoDisk))
      BY <1>1, <2>2, <3>1, MountEffects
    <3>6. On("@", NoDisk, NoDisk)' /\ (efi)' BY <1>1, <2>5, <3>5 DEF On, Went, Disk
    <3>7. Queue(<<Run("mount subvolumes"), Write("efi"), Run("mount efi"), Write("boot"),
                  Run("mount boot")>>)'
      BY <2>1, <2>5 DEF Went
    <3>8. bare' = {} BY <1>0, <3>2
    <3> QED BY <3>3, <3>4, <3>5, <3>6, <3>7, <3>8 DEF Story5
  <2> QED BY <2>4, <2>5
<1>2. CASE /\ Off /\ ~efi
           /\ Queue(<<Run("mount root"), Run("mount subvolumes"), Write("boot"),
                      Run("mount boot")>>)
  <2>1. /\ Head(session.queue) = Run("mount root")
        /\ session'.queue = Tail(session.queue) =>
             Queue(<<Run("mount subvolumes"), Write("boot"), Run("mount boot")>>)'
    BY <1>2, QueueGoes
  <2>2. RootDevice = session.disk /\ RootDevice # NoDisk BY <1>2, KeyFacts, <1>0
  <2>3. HasRoot({"ready"}) BY <1>2, <2>2, <1>0 DEF HasRoot, Base, Rooted, Disk
  <2>4. Possible(Head(session.queue)) BY <2>1, <2>2, <2>3, CommandFields, Needs
  <2>5. ASSUME Went PROVE Story5'
    <3>1. MountRoot BY <2>1, <2>4, <2>5, CommandFields, Effects DEF Went
    <3>2. content' = content /\ mapper' = mapper /\ bare' = bare BY <3>1 DEF MountRoot
    <3>3. Base' BY <2>5, <3>2, BaseUntouched, <1>0
    <3>4. (mapper = Key)' BY <2>5, <3>2, KeyStays, <1>0
    <3>5. mnt' = Laid(Layered(session.disk, "@", NoDisk, NoDisk))
      BY <1>2, <2>2, <3>1, MountEffects
    <3>6. On("@", NoDisk, NoDisk)' /\ (~efi)' BY <1>2, <2>5, <3>5 DEF On, Went, Disk
    <3>7. Queue(<<Run("mount subvolumes"), Write("boot"), Run("mount boot")>>)'
      BY <2>1, <2>5 DEF Went
    <3>8. bare' = {} BY <1>0, <3>2
    <3> QED BY <3>3, <3>4, <3>5, <3>6, <3>7, <3>8 DEF Story5
  <2> QED BY <2>4, <2>5
<1>3. CASE /\ On("@", NoDisk, NoDisk) /\ efi
           /\ Queue(<<Run("mount subvolumes"), Write("efi"), Run("mount efi"),
                      Write("boot"), Run("mount boot")>>)
  <2>1. /\ Head(session.queue) = Run("mount subvolumes")
        /\ session'.queue = Tail(session.queue) =>
             Queue(<<Write("efi"), Run("mount efi"), Write("boot"), Run("mount boot")>>)'
    BY <1>3, QueueGoes
  <2>2. Possible(Head(session.queue)) BY <2>1, CommandFields, Needs
  <2>3. ASSUME Went PROVE Story5'
    <3>1. MountSubvolumes BY <2>1, <2>2, <2>3, CommandFields, Effects DEF Went
    <3>2. content' = content /\ mapper' = mapper /\ mnt' = mnt /\ bare' = bare
      BY <3>1 DEF MountSubvolumes
    <3>3. Base' BY <2>3, <3>2, BaseUntouched, <1>0
    <3>4. (mapper = Key)' BY <2>3, <3>2, KeyStays, <1>0
    <3>5. On("@", NoDisk, NoDisk)' /\ efi' BY <1>3, <2>3, <3>2 DEF On, Went, Disk
    <3>6. Queue(<<Write("efi"), Run("mount efi"), Write("boot"), Run("mount boot")>>)'
      BY <2>1, <2>3 DEF Went
    <3>7. bare' = {} BY <1>0, <3>2
    <3> QED BY <3>3, <3>4, <3>5, <3>6, <3>7 DEF Story5
  <2> QED BY <2>2, <2>3
<1>4. CASE /\ On("@", NoDisk, NoDisk) /\ ~efi
           /\ Queue(<<Run("mount subvolumes"), Write("boot"), Run("mount boot")>>)
  <2>1. /\ Head(session.queue) = Run("mount subvolumes")
        /\ session'.queue = Tail(session.queue) =>
             Queue(<<Write("boot"), Run("mount boot")>>)'
    BY <1>4, QueueGoes
  <2>2. Possible(Head(session.queue)) BY <2>1, CommandFields, Needs
  <2>3. ASSUME Went PROVE Story5'
    <3>1. MountSubvolumes BY <2>1, <2>2, <2>3, CommandFields, Effects DEF Went
    <3>2. content' = content /\ mapper' = mapper /\ mnt' = mnt /\ bare' = bare
      BY <3>1 DEF MountSubvolumes
    <3>3. Base' BY <2>3, <3>2, BaseUntouched, <1>0
    <3>4. (mapper = Key)' BY <2>3, <3>2, KeyStays, <1>0
    <3>5. On("@", Esp, NoDisk)' /\ ~efi' BY <1>4, <2>3, <3>2 DEF On, Went, Disk, Esp
    <3>6. Queue(<<Write("boot"), Run("mount boot")>>)' BY <2>1, <2>3 DEF Went
    <3>7. bare' = {} BY <1>0, <3>2
    <3> QED BY <3>3, <3>4, <3>5, <3>6, <3>7 DEF Story5
  <2> QED BY <2>2, <2>3
<1>5. CASE /\ On("@", NoDisk, NoDisk) /\ efi
           /\ Queue(<<Write("efi"), Run("mount efi"), Write("boot"), Run("mount boot")>>)
  <2>1. /\ Head(session.queue) = Write("efi")
        /\ session'.queue = Tail(session.queue) =>
             Queue(<<Run("mount efi"), Write("boot"), Run("mount boot")>>)'
    BY <1>5, QueueGoes
  <2>2. Head(session.queue).do = "write" /\ Head(session.queue).what = "efi"
    BY <1>5, <2>1, CommandFields
  <2>3. Possible(Head(session.queue)) BY <2>1, <2>2, CommandFields, Needs
  <2>4. ASSUME Went PROVE Story5'
    <3>1. WriteFile BY <2>1, <2>3, <2>4, <2>2, CommandFields, Effects DEF Went
    <3>2. mapper' = mapper /\ mnt' = mnt BY <3>1 DEF WriteFile
    <3>3. Store("efi") BY <2>2, <3>1 DEF WriteFile
    <3>4. Base' /\ Held' = Held \cup {"efi"} /\ bare' = bare
      BY <1>5, <2>4, <3>3, <1>0, BaseFiled, SomeFiles
    <3>5. "efi" \in Held' /\ bare' = {} BY <3>4, <1>0
    <3>6. (mapper = Key)' BY <2>4, <3>2, KeyStays, <1>0
    <3>7. On("@", NoDisk, NoDisk)' /\ efi' BY <1>5, <2>4, <3>2 DEF On, Went, Disk
    <3>8. Queue(<<Run("mount efi"), Write("boot"), Run("mount boot")>>)'
      BY <2>1, <2>4 DEF Went
    <3> QED BY <3>3, <3>4, <3>5, <3>6, <3>7, <3>8 DEF Story5
  <2> QED BY <2>3, <2>4
<1>6. CASE /\ On("@", NoDisk, NoDisk) /\ efi /\ "efi" \in Held
           /\ Queue(<<Run("mount efi"), Write("boot"), Run("mount boot")>>)
  <2>1. /\ Head(session.queue) = Run("mount efi")
        /\ session'.queue = Tail(session.queue) =>
             Queue(<<Write("boot"), Run("mount boot")>>)'
    BY <1>6, QueueGoes
  <2>2. Top.efi = NoDisk /\ Visible = Held BY <1>6, OnFacts DEF FilesOf, Held, Lying
  <2>3. "fat" \in content[Disk].esp /\ "efi" \in Visible
    BY <1>6, <2>2, <1>0 DEF Base, Formatted
  <2>4. Possible(Head(session.queue)) BY <2>1, <2>2, <2>3, CommandFields, Needs
  <2>5. ASSUME Went PROVE Story5'
    <3>1. MountEfi BY <2>1, <2>4, <2>5, CommandFields, Effects DEF Went
    <3>2. content' = content /\ mapper' = mapper /\ bare' = bare BY <3>1 DEF MountEfi
    <3>3. Base' /\ "efi" \in Held' BY <1>6, <2>5, <3>2, BaseUntouched, <1>0
    <3>4. (mapper = Key)' BY <2>5, <3>2, KeyStays, <1>0
    <3>5. mnt' = Laid(Layered(session.disk, "@", session.disk, NoDisk))
      BY <1>6, <3>1, MountEffects
    <3>6. On("@", Esp, NoDisk)' BY <1>6, <2>5, <3>5 DEF On, Went, Disk, Esp
    <3>7. Queue(<<Write("boot"), Run("mount boot")>>)' BY <2>1, <2>5 DEF Went
    <3>8. bare' = {} BY <1>0, <3>2
    <3> QED BY <3>3, <3>4, <3>5, <3>6, <3>7, <3>8 DEF Story5
  <2> QED BY <2>4, <2>5
<1>7. CASE /\ On("@", Esp, NoDisk) /\ (efi => "efi" \in Held)
           /\ Queue(<<Write("boot"), Run("mount boot")>>)
  <2>1. /\ Head(session.queue) = Write("boot")
        /\ session'.queue = Tail(session.queue) => Queue(<<Run("mount boot")>>)'
    BY <1>7, QueueGoes
  <2>2. Head(session.queue).do = "write" /\ Head(session.queue).what = "boot"
    BY <1>7, <2>1, CommandFields
  <2>3. Possible(Head(session.queue)) BY <2>1, <2>2, CommandFields, Needs
  <2>4. ASSUME Went PROVE Story5'
    <3>1. WriteFile BY <2>1, <2>3, <2>4, <2>2, CommandFields, Effects DEF Went
    <3>2. mapper' = mapper /\ mnt' = mnt BY <3>1 DEF WriteFile
    <3>3. Store("boot") BY <2>2, <3>1 DEF WriteFile
    <3>4. Base' /\ Held' = Held \cup {"boot"} /\ bare' = bare
      BY <1>7, <2>4, <3>3, <1>0, BaseFiled, SomeFiles
    <3>5. (efi => "efi" \in Held)' /\ "boot" \in Held' /\ bare' = {}
      BY <1>7, <2>4, <3>4, <1>0 DEF Went
    <3>6. (mapper = Key)' BY <2>4, <3>2, KeyStays, <1>0
    <3>7. On("@", Esp, NoDisk)' BY <1>7, <2>4, <3>2, EspStays DEF On, Went, Disk
    <3>8. Queue(<<Run("mount boot")>>)' BY <2>1, <2>4 DEF Went
    <3> QED BY <3>3, <3>4, <3>5, <3>6, <3>7, <3>8 DEF Story5
  <2> QED BY <2>3, <2>4
<1>8. CASE /\ On("@", Esp, NoDisk) /\ (efi => "efi" \in Held) /\ "boot" \in Held
           /\ Queue(<<Run("mount boot")>>)
  <2>1. /\ Head(session.queue) = Run("mount boot")
        /\ session'.queue = Tail(session.queue) => Queue(<<>>)'
    BY <1>8, QueueGoes
  <2>2. Top.boot = NoDisk /\ Visible = Held BY <1>8, OnFacts DEF FilesOf, Held, Lying
  <2>3. "ext4" \in content[Disk].boot /\ "boot" \in Visible BY <1>8, <2>2, <1>0 DEF Base, Rooted
  <2>4. Possible(Head(session.queue)) BY <2>1, <2>2, <2>3, CommandFields, Needs
  <2>5. ASSUME Went PROVE Story5'
    <3>1. MountBoot BY <2>1, <2>4, <2>5, CommandFields, Effects DEF Went
    <3>2. content' = content /\ mapper' = mapper /\ bare' = bare BY <3>1 DEF MountBoot
    <3>3. Base' /\ (efi => "efi" \in Held)'
      BY <1>8, <2>5, <3>2, BaseUntouched, <1>0 DEF Went
    <3>4. (mapper = Key)' BY <2>5, <3>2, KeyStays, <1>0
    <3>5. mnt' = Laid(Layered(session.disk, "@", Esp, session.disk))
      BY <1>8, <3>1, MountEffects
    <3>6. On("@", Esp, Disk)' BY <1>8, <2>5, <3>5, EspStays DEF On, Went, Disk
    <3>7. Queue(<<>>)' BY <2>1, <2>5 DEF Went
    <3>8. bare' = {} BY <1>0, <3>2
    <3> QED BY <3>3, <3>4, <3>5, <3>6, <3>7, <3>8 DEF Story5
  <2> QED BY <2>4, <2>5
<1> QED BY <1>1, <1>2, <1>3, <1>4, <1>5, <1>6, <1>7, <1>8, BusyFacts, QueueGoes DEF Story5

LEMMA TailFacts ==
  ASSUME NEW S, NEW q \in Seq(S), q # <<>>
  PROVE  /\ \A i \in DOMAIN Tail(q) : i + 1 \in DOMAIN q /\ Tail(q)[i] = q[i + 1]
         /\ 1 \in DOMAIN q /\ q[1] = Head(q)
         /\ \A i \in DOMAIN q : i # 1 =>
              i - 1 \in DOMAIN Tail(q) /\ Tail(q)[i - 1] = q[i]
<1>1. /\ Tail(q) \in Seq(S) /\ Len(Tail(q)) = Len(q) - 1
      /\ \A i \in 1 .. Len(Tail(q)) : Tail(q)[i] = q[i + 1]
  BY HeadTailProperties
<1>2. /\ DOMAIN q = 1 .. Len(q) /\ DOMAIN Tail(q) = 1 .. Len(Tail(q))
      /\ Len(q) \in Nat /\ Len(q) # 0 /\ Head(q) = q[1]
  BY <1>1, LenProperties, EmptySeq
<1> DEFINE t == Tail(q)
<1>3. /\ DOMAIN t = 1 .. Len(q) - 1 /\ \A i \in 1 .. Len(q) - 1 : t[i] = q[i + 1]
  BY <1>1, <1>2
<1> HIDE DEF t
<1>4. \A i \in DOMAIN t : i + 1 \in DOMAIN q /\ t[i] = q[i + 1] BY <1>2, <1>3
<1>5. ASSUME NEW i \in DOMAIN q, i # 1 PROVE i - 1 \in DOMAIN t /\ t[i - 1] = q[i]
  <2>1. i - 1 \in 1 .. Len(q) - 1 /\ (i - 1) + 1 = i BY <1>2, <1>5
  <2> QED BY <1>3, <2>1
<1>6. 1 \in DOMAIN q /\ q[1] = Head(q) BY <1>2
<1> QED BY <1>4, <1>5, <1>6 DEF t

LEMMA CommandShape ==
  ASSUME NEW c \in Commands
  PROVE  /\ c.do \in {"write", "chroot"} => c.what \in Files
         /\ c.do = "pacstrap" => c.what \notin Files
BY DEF Commands

\* A command that brings something to a file is possible once there is a base system.
LEMMA FilingPossible ==
  ASSUME NEW c \in Commands, NEW n \in Nat, Filing(c, n), n > 6 => "packages" \in Visible
  PROVE  Possible(c) \/ (c.what = "firstboot enabled" /\ ~c.checked /\ c.do # "pacstrap")
<1>0. c.do = "pacstrap" => c.what \notin Files BY CommandShape
<1>1. CASE c.what = "firstboot enabled"
  <2>1. c.what \in Files BY <1>1 DEF Files
  <2> QED BY <1>1, <2>1, CommandShape DEF Filing
<1>2. CASE c.what # "firstboot enabled"
  <2>1. c.do \in {"write", "chroot", "pacstrap"} /\ (c.do = "chroot" => n > 6)
    BY DEF Filing
  <2>2. c.what \notin {"loader", "grub", "grub.cfg"}
    <3>1. CASE c.do = "pacstrap" BY <1>0, <3>1, SomeFiles
    <3>2. CASE c.do # "pacstrap" BY <3>2 DEF Filing, Filed
    <3> QED BY <3>1, <3>2
  <2> QED BY <1>2, <2>1, <2>2, Needs
<1> QED BY <1>1, <1>2

\* What it does is to store its file, or the base system.
LEMMA FilingEffects ==
  ASSUME InstallInv, DiskCommand \/ WriteFile \/ Pacstrap, NEW n,
         Filing(Head(session.queue), n), session.queue # <<>>
  PROVE  /\ \/ Filed(Head(session.queue)) = "packages" /\ Pacstrap
            \/ /\ Filed(Head(session.queue)) \in Files \ {"packages"}
               /\ Store(Filed(Head(session.queue)))
         /\ mapper' = mapper /\ mnt' = mnt
<1> DEFINE c == Head(session.queue)
<1>1. c \in Commands BY QueueHead
<1>2. c.do \in {"write", "chroot", "pacstrap"} /\ c.what # "packages" BY DEF Filing
<1>3. CASE c.do = "pacstrap"
  <2>1. Pacstrap BY <1>3, Effects
  <2>2. Filed(c) = "packages" BY <1>3 DEF Filed
  <2> QED BY <2>1, <2>2 DEF Pacstrap
<1>4. CASE c.do # "pacstrap"
  <2>1. WriteFile BY <1>2, <1>4, Effects
  <2>2. Filed(c) = c.what BY <1>4 DEF Filed
  <2>3. c.what \in Files BY <1>1, <1>2, <1>4, CommandShape
  <2> QED BY <1>2, <2>1, <2>2, <2>3 DEF WriteFile
<1> QED BY <1>3, <1>4

LEMMA FilesStory ==
  ASSUME Busy, StoryFiles, session.step \in 6 .. 18
  PROVE  /\ Possible(Head(session.queue)) \/ ~Head(session.queue).checked
         /\ Went => StoryFiles'
<1> DEFINE c == Head(session.queue)
           q == session.queue
           n == session.step
<1>1. /\ bare = {} /\ Base /\ mapper = Key /\ On("@", Esp, Disk)
      /\ (efi => "efi" \in Held)
      /\ \A k \in 6 .. 18 : k < n => Due(k) \subseteq Held
      /\ Due(n) \subseteq Held \cup {Filed(q[i]) : i \in DOMAIN q}
      /\ \A i \in DOMAIN q : Filing(q[i], n)
  BY DEF StoryFiles
<1>2. InstallInv /\ q \in Seq(Commands) /\ q # <<>> /\ c \in Commands
  BY QueueHead DEF Busy
<1>3. /\ \A i \in DOMAIN Tail(q) : i + 1 \in DOMAIN q /\ Tail(q)[i] = q[i + 1]
      /\ 1 \in DOMAIN q /\ q[1] = c
      /\ \A i \in DOMAIN q : i # 1 => i - 1 \in DOMAIN Tail(q) /\ Tail(q)[i - 1] = q[i]
  BY <1>2, TailFacts
<1>4. Filing(c, n) BY <1>1, <1>3
<1>5. Visible = Held BY <1>1, OnFacts DEF FilesOf, Held, Lying
<1>6. n > 6 => "packages" \in Visible
  <2>1. Due(6) = {"packages"} BY DEF Due
  <2> QED BY <1>1, <1>5, <2>1
<1> HIDE DEF c, q, n
<1>7. n \in Nat BY DEF n
<1>8. Possible(c) \/ (c.what = "firstboot enabled" /\ ~c.checked /\ c.do # "pacstrap")
  BY <1>2, <1>4, <1>6, <1>7, FilingPossible
<1>9. ASSUME Went PROVE StoryFiles'
  <2>1. /\ session'.queue = Tail(q) /\ session'.step = n
    BY <1>9 DEF Went, q, n
  <2>2. /\ bare' = {} /\ Base' /\ mapper' = mapper /\ mnt' = mnt /\ Held \subseteq Held'
        /\ Filed(c) \in Held' \/ (c.what = "firstboot enabled" /\ c.do # "pacstrap")
    <3>1. CASE Possible(c)
      <4>1. DiskCommand \/ WriteFile \/ Pacstrap BY <1>9, <3>1 DEF Went, c
      <4>2. /\ \/ Filed(c) = "packages" /\ Pacstrap
               \/ Filed(c) \in Files \ {"packages"} /\ Store(Filed(c))
            /\ mapper' = mapper /\ mnt' = mnt
        BY <1>2, <1>4, <4>1, FilingEffects DEF c, q
      <4>3. Filed(c) \notin {"loader", "entries", "grub", "grub.cfg"} BY <1>4 DEF Filing
      <4>4. Base' /\ Held' = Held \cup {Filed(c)} /\ bare' = bare
        <5>1. CASE Filed(c) = "packages" /\ Pacstrap
          BY <1>1, <1>9, <5>1, BasePacked
        <5>2. CASE Filed(c) \in Files \ {"packages"} /\ Store(Filed(c))
          BY <1>1, <1>9, <4>3, <5>2, BaseFiled
        <5> QED BY <4>2, <5>1, <5>2
      <4> QED BY <1>1, <4>2, <4>4
    <3>2. CASE ~Possible(c)
      <4>1. UNCHANGED machine BY <1>9, <3>2 DEF Went, c
      <4>2. content' = content /\ bare' = bare /\ mapper' = mapper /\ mnt' = mnt
        BY <4>1 DEF machine
      <4>3. Base' /\ Held' = Held BY <1>1, <1>9, <4>2, BaseUntouched
      <4> QED BY <1>1, <1>8, <3>2, <4>2, <4>3
    <3> QED BY <3>1, <3>2
  <2>3. (mapper = Key)' BY <1>1, <1>9, <2>2, KeyStays
  <2>4. On("@", Esp, Disk)' BY <1>1, <1>9, <2>2, EspStays DEF On, Went, Disk
  <2>5. (efi => "efi" \in Held)' BY <1>1, <1>9, <2>2 DEF Went
  <2>6. \A k \in 6 .. 18 : k < n => Due(k) \subseteq Held' BY <1>1, <2>2
  <2>7. \A i \in DOMAIN Tail(q) : Filing(Tail(q)[i], n) BY <1>1, <1>3
  <2>8. Due(n) \subseteq Held' \cup {Filed(Tail(q)[i]) : i \in DOMAIN Tail(q)}
    <3> SUFFICES ASSUME NEW f \in Due(n), f \notin Held'
        PROVE  \E i \in DOMAIN Tail(q) : f = Filed(Tail(q)[i])
      OBVIOUS
    <3>1. PICK i \in DOMAIN q : f = Filed(q[i]) BY <1>1, <2>2
    <3>2. f # "firstboot enabled" BY DEF Due
    <3>3. i # 1
      <4>1. SUFFICES ASSUME i = 1 PROVE FALSE OBVIOUS
      <4>2. f = Filed(c) BY <1>3, <3>1, <4>1
      <4>3. c.what = "firstboot enabled" /\ c.do # "pacstrap" BY <2>2, <4>2
      <4>4. Filed(c) = "firstboot enabled" BY <4>3 DEF Filed
      <4> QED BY <3>2, <4>2, <4>4
    <3>4. i - 1 \in DOMAIN Tail(q) /\ Tail(q)[i - 1] = q[i] BY <1>3, <3>3
    <3> QED BY <3>1, <3>4
  <2> QED BY <2>1, <2>2, <2>3, <2>4, <2>5, <2>6, <2>7, <2>8 DEF StoryFiles
<1> QED BY <1>8, <1>9 DEF c

LEMMA FilledUntouched ==
  ASSUME Filled, Went, content' = content PROVE Filled'
<1>1. Base' /\ Held' = Held BY BaseUntouched DEF Filled
<1> QED BY <1>1 DEF Filled, Went

LEMMA UnmountStory ==
  ASSUME Busy, Story19
  PROVE  Possible(Head(session.queue)) /\ (Went => Story19')
<1>0. bare = {} /\ Filled BY DEF Story19
<1>1. CASE /\ mapper = Key /\ On("@", Esp, Disk) /\ session.encrypt
           /\ Queue(<<Try("umount below"), Try("umount"), Try("luksClose")>>)
  <2>1. /\ Head(session.queue) = Try("umount below")
        /\ session'.queue = Tail(session.queue) =>
             Queue(<<Try("umount"), Try("luksClose")>>)'
    BY <1>1, QueueGoes
  <2>2. Possible(Head(session.queue)) BY <2>1, CommandFields, Needs
  <2>3. ASSUME Went PROVE Story19'
    <3>1. UmountBelow BY <2>1, <2>2, <2>3, CommandFields, Effects DEF Went
    <3>2. content' = content /\ mapper' = mapper /\ bare' = bare BY <3>1 DEF UmountBelow
    <3>3. Filled' BY <2>3, <3>2, <1>0, FilledUntouched
    <3>4. (mapper = Key)' BY <1>1, <2>3, <3>2, KeyStays
    <3>5. mnt' = Laid(Layered(session.disk, "@", NoDisk, NoDisk))
      BY <1>1, <3>1, MountEffects
    <3>6. On("@", NoDisk, NoDisk)' /\ (session.encrypt)'
      BY <1>1, <2>3, <3>5 DEF On, Went, Disk
    <3>7. Queue(<<Try("umount"), Try("luksClose")>>)' BY <2>1, <2>3 DEF Went
    <3>8. bare' = {} BY <1>0, <3>2
    <3> QED BY <3>3, <3>4, <3>5, <3>6, <3>7, <3>8 DEF Story19
  <2> QED BY <2>2, <2>3
<1>2. CASE /\ mapper = Key /\ On("@", Esp, Disk) /\ ~session.encrypt
           /\ Queue(<<Try("umount below"), Try("umount")>>)
  <2>1. /\ Head(session.queue) = Try("umount below")
        /\ session'.queue = Tail(session.queue) => Queue(<<Try("umount")>>)'
    BY <1>2, QueueGoes
  <2>2. Possible(Head(session.queue)) BY <2>1, CommandFields, Needs
  <2>3. ASSUME Went PROVE Story19'
    <3>1. UmountBelow BY <2>1, <2>2, <2>3, CommandFields, Effects DEF Went
    <3>2. content' = content /\ mapper' = mapper /\ bare' = bare BY <3>1 DEF UmountBelow
    <3>3. Filled' BY <2>3, <3>2, <1>0, FilledUntouched
    <3>4. (mapper = Key)' BY <1>2, <2>3, <3>2, KeyStays
    <3>5. mnt' = Laid(Layered(session.disk, "@", NoDisk, NoDisk))
      BY <1>2, <3>1, MountEffects
    <3>6. On("@", NoDisk, NoDisk)' /\ (~session.encrypt)'
      BY <1>2, <2>3, <3>5 DEF On, Went, Disk
    <3>7. Queue(<<Try("umount")>>)' BY <2>1, <2>3 DEF Went
    <3>8. bare' = {} BY <1>0, <3>2
    <3> QED BY <3>3, <3>4, <3>5, <3>6, <3>7, <3>8 DEF Story19
  <2> QED BY <2>2, <2>3
<1>3. CASE /\ mapper = Key /\ On("@", NoDisk, NoDisk) /\ session.encrypt
           /\ Queue(<<Try("umount"), Try("luksClose")>>)
  <2>1. /\ Head(session.queue) = Try("umount")
        /\ session'.queue = Tail(session.queue) => Queue(<<Try("luksClose")>>)'
    BY <1>3, QueueGoes
  <2>2. IsMounted BY <1>3, OnFacts
  <2>3. Possible(Head(session.queue)) BY <2>1, <2>2, CommandFields, Needs
  <2>4. ASSUME Went PROVE Story19'
    <3>1. Umount BY <2>1, <2>3, <2>4, CommandFields, Effects DEF Went
    <3>2. content' = content /\ mapper' = mapper /\ bare' = bare BY <3>1 DEF Umount
    <3>3. Filled' BY <2>4, <3>2, <1>0, FilledUntouched
    <3>4. (mapper = Key)' /\ (session.encrypt)' BY <1>3, <2>4, <3>2, KeyStays DEF Went
    <3>5. mnt' = <<LiveDirectory>> BY <1>3, <3>1, MountEffects
    <3>6. Queue(<<Try("luksClose")>>)' BY <2>1, <2>4 DEF Went
    <3>7. bare' = {} BY <1>0, <3>2
    <3> QED BY <3>3, <3>4, <3>5, <3>6, <3>7 DEF Story19, Off
  <2> QED BY <2>3, <2>4
<1>4. CASE /\ mapper = Key /\ On("@", NoDisk, NoDisk) /\ ~session.encrypt
           /\ Queue(<<Try("umount")>>)
  <2>1. /\ Head(session.queue) = Try("umount")
        /\ session'.queue = Tail(session.queue) => Queue(<<>>)'
    BY <1>4, QueueGoes
  <2>2. IsMounted BY <1>4, OnFacts
  <2>3. Possible(Head(session.queue)) BY <2>1, <2>2, CommandFields, Needs
  <2>4. ASSUME Went PROVE Story19'
    <3>1. Umount BY <2>1, <2>3, <2>4, CommandFields, Effects DEF Went
    <3>2. content' = content /\ mapper' = mapper /\ bare' = bare BY <3>1 DEF Umount
    <3>3. Filled' BY <2>4, <3>2, <1>0, FilledUntouched
    <3>4. (mapper = Key)' /\ (~session.encrypt)' BY <1>4, <2>4, <3>2, KeyStays DEF Went
    <3>5. mnt' = <<LiveDirectory>> BY <1>4, <3>1, MountEffects
    <3>6. Shut' BY <3>4, <3>5 DEF Shut, Off, Key
    <3>7. Queue(<<>>)' BY <2>1, <2>4 DEF Went
    <3>8. bare' = {} BY <1>0, <3>2
    <3> QED BY <3>3, <3>4, <3>5, <3>6, <3>7, <3>8 DEF Story19, Off
  <2> QED BY <2>3, <2>4
<1>5. CASE mapper = Key /\ session.encrypt /\ Off /\ Queue(<<Try("luksClose")>>)
  <2>1. /\ Head(session.queue) = Try("luksClose")
        /\ session'.queue = Tail(session.queue) => Queue(<<>>)'
    BY <1>5, QueueGoes
  <2>2. mapper # NoDisk /\ ~RootInUse(mapper) BY <1>5, BusyFacts, OffUnused DEF Key, Disk
  <2>3. Possible(Head(session.queue)) BY <2>1, <2>2, CommandFields, Needs
  <2>4. ASSUME Went PROVE Story19'
    <3>1. LuksClose BY <2>1, <2>3, <2>4, CommandFields, Effects DEF Went
    <3>2. content' = content /\ mnt' = mnt /\ bare' = bare BY <3>1 DEF LuksClose
    <3>3. Filled' BY <2>4, <3>2, <1>0, FilledUntouched
    <3>4. mapper' = NoDisk BY <3>1 DEF LuksClose
    <3>5. Shut' BY <1>5, <3>2, <3>4 DEF Shut, Off
    <3>6. Queue(<<>>)' BY <2>1, <2>4 DEF Went
    <3>7. bare' = {} BY <1>0, <3>2
    <3> QED BY <3>3, <3>4, <3>5, <3>6, <3>7 DEF Story19
  <2> QED BY <2>3, <2>4
<1> QED BY <1>1, <1>2, <1>3, <1>4, <1>5, BusyFacts, QueueGoes DEF Story19

LEMMA RemountStory ==
  ASSUME Busy, Story20, ~session.encrypt
  PROVE  Possible(Head(session.queue)) /\ (Went => Story20')
<1>0. bare = {} /\ Filled /\ mapper = NoDisk /\ ~session.encrypt BY DEF Story20
<1>1. CASE /\ Off /\ efi
           /\ Queue(<<Try("mount root"), Try("mount efi"), Try("mount boot")>>)
  <2>1. /\ Head(session.queue) = Try("mount root")
        /\ session'.queue = Tail(session.queue) =>
             Queue(<<Try("mount efi"), Try("mount boot")>>)'
    BY <1>1, QueueGoes
  <2>2. RootDevice = session.disk /\ RootDevice # NoDisk BY <1>1, <1>0, KeyFacts DEF Key
  <2>3. HasRoot({"ready"}) BY <1>1, <1>0, <2>2 DEF HasRoot, Filled, Base, Rooted, Disk
  <2>4. Possible(Head(session.queue)) BY <2>1, <2>2, <2>3, CommandFields, Needs
  <2>5. ASSUME Went PROVE Story20'
    <3>1. MountRoot BY <2>1, <2>4, <2>5, CommandFields, Effects DEF Went
    <3>2. content' = content /\ mapper' = mapper /\ bare' = bare BY <3>1 DEF MountRoot
    <3>3. Filled' BY <2>5, <3>2, <1>0, FilledUntouched
    <3>4. mnt' = Laid(Layered(session.disk, "@", NoDisk, NoDisk))
      BY <1>1, <2>2, <3>1, MountEffects
    <3>5. Again(NoDisk, NoDisk)' /\ (efi)'
      BY <1>1, <1>0, <2>5, <3>4 DEF Again, On, Went, Disk, Esp
    <3>6. Queue(<<Try("mount efi"), Try("mount boot")>>)' BY <2>1, <2>5 DEF Went
    <3>7. bare' = {} /\ mapper' = NoDisk BY <1>0, <3>2
    <3> QED BY <3>3, <3>4, <3>5, <3>6, <3>7 DEF Story20
  <2> QED BY <2>4, <2>5
<1>2. CASE Off /\ ~efi /\ Queue(<<Try("mount root"), Try("mount boot")>>)
  <2>1. /\ Head(session.queue) = Try("mount root")
        /\ session'.queue = Tail(session.queue) => Queue(<<Try("mount boot")>>)'
    BY <1>2, QueueGoes
  <2>2. RootDevice = session.disk /\ RootDevice # NoDisk BY <1>2, <1>0, KeyFacts DEF Key
  <2>3. HasRoot({"ready"}) BY <1>2, <1>0, <2>2 DEF HasRoot, Filled, Base, Rooted, Disk
  <2>4. Possible(Head(session.queue)) BY <2>1, <2>2, <2>3, CommandFields, Needs
  <2>5. ASSUME Went PROVE Story20'
    <3>1. MountRoot BY <2>1, <2>4, <2>5, CommandFields, Effects DEF Went
    <3>2. content' = content /\ mapper' = mapper /\ bare' = bare BY <3>1 DEF MountRoot
    <3>3. Filled' BY <2>5, <3>2, <1>0, FilledUntouched
    <3>4. mnt' = Laid(Layered(session.disk, "@", NoDisk, NoDisk))
      BY <1>2, <2>2, <3>1, MountEffects
    <3>5. Again(Esp, NoDisk)' /\ (~efi)'
      BY <1>2, <1>0, <2>5, <3>4 DEF Again, On, Went, Disk, Esp
    <3>6. Queue(<<Try("mount boot")>>)' BY <2>1, <2>5 DEF Went
    <3>7. bare' = {} /\ mapper' = NoDisk BY <1>0, <3>2
    <3> QED BY <3>3, <3>4, <3>5, <3>6, <3>7 DEF Story20
  <2> QED BY <2>4, <2>5
<1>3. CASE /\ On("@", NoDisk, NoDisk) /\ efi
           /\ Queue(<<Try("mount efi"), Try("mount boot")>>)
  <2>1. /\ Head(session.queue) = Try("mount efi")
        /\ session'.queue = Tail(session.queue) => Queue(<<Try("mount boot")>>)'
    BY <1>3, QueueGoes
  <2>2. Top.efi = NoDisk /\ Visible = Held BY <1>3, OnFacts DEF FilesOf, Held, Lying
  <2>3. "fat" \in content[Disk].esp /\ "efi" \in Visible
    BY <1>3, <1>0, <2>2 DEF Filled, Base, Formatted
  <2>4. Possible(Head(session.queue)) BY <2>1, <2>2, <2>3, CommandFields, Needs
  <2>5. ASSUME Went PROVE Story20'
    <3>1. MountEfi BY <2>1, <2>4, <2>5, CommandFields, Effects DEF Went
    <3>2. content' = content /\ mapper' = mapper /\ bare' = bare BY <3>1 DEF MountEfi
    <3>3. Filled' BY <2>5, <3>2, <1>0, FilledUntouched
    <3>4. mnt' = Laid(Layered(session.disk, "@", session.disk, NoDisk))
      BY <1>3, <3>1, MountEffects
    <3>5. Again(Esp, NoDisk)' BY <1>3, <1>0, <2>5, <3>4 DEF Again, On, Went, Disk, Esp
    <3>6. Queue(<<Try("mount boot")>>)' BY <2>1, <2>5 DEF Went
    <3>7. bare' = {} /\ mapper' = NoDisk BY <1>0, <3>2
    <3> QED BY <3>3, <3>4, <3>5, <3>6, <3>7 DEF Story20
  <2> QED BY <2>4, <2>5
<1>4. CASE On("@", Esp, NoDisk) /\ Queue(<<Try("mount boot")>>)
  <2>1. /\ Head(session.queue) = Try("mount boot")
        /\ session'.queue = Tail(session.queue) => Queue(<<>>)'
    BY <1>4, QueueGoes
  <2>2. Top.boot = NoDisk /\ Visible = Held BY <1>4, OnFacts DEF FilesOf, Held, Lying
  <2>3. "ext4" \in content[Disk].boot /\ "packages" \in Visible
    BY <1>4, <1>0, <2>2 DEF Filled, Base, Rooted, DueFiles
  <2>4. Possible(Head(session.queue)) BY <2>1, <2>2, <2>3, CommandFields, Needs
  <2>5. ASSUME Went PROVE Story20'
    <3>1. MountBoot BY <2>1, <2>4, <2>5, CommandFields, Effects DEF Went
    <3>2. content' = content /\ mapper' = mapper /\ bare' = bare BY <3>1 DEF MountBoot
    <3>3. Filled' BY <2>5, <3>2, <1>0, FilledUntouched
    <3>4. mnt' = Laid(Layered(session.disk, "@", Esp, session.disk))
      BY <1>4, <3>1, MountEffects
    <3>5. Again(Esp, Disk)' BY <1>4, <1>0, <2>5, <3>4, EspStays DEF Again, On, Went, Disk
    <3>6. Queue(<<>>)' BY <2>1, <2>5 DEF Went
    <3>7. bare' = {} /\ mapper' = NoDisk BY <1>0, <3>2
    <3> QED BY <3>3, <3>4, <3>5, <3>6, <3>7 DEF Story20
  <2> QED BY <2>4, <2>5
<1> QED BY <1>1, <1>2, <1>3, <1>4, BusyFacts, QueueGoes DEF Story20, Again

\* Of what is encrypted and closed nothing can be mounted.
LEMMA NothingToMount ==
  ASSUME NEW c
  PROVE  /\ c.do = "mount root" /\ RootDevice = NoDisk => ~Possible(c)
         /\ c.do = "mount efi" /\ Visible = {} => ~Possible(c)
         /\ c.do = "mount boot" /\ Visible = {} => ~Possible(c)
         /\ c.do = "chroot" /\ "packages" \notin Visible => ~Possible(c)
         /\ c.what \in {"grub", "grub.cfg"} /\ "grub" \notin Visible => ~Possible(c)
BY DEF Possible, HasRoot

LEMMA RemountEncrypted ==
  ASSUME Busy, Story20, session.encrypt
  PROVE  ~Head(session.queue).checked /\ (Went => Story20')
<1>0. bare = {} /\ Filled /\ mapper = NoDisk /\ Off BY DEF Story20, Again
<1>1. RootDevice = NoDisk /\ Visible = {} BY <1>0, OffFacts DEF RootDevice
<1>2. ASSUME NEW do \in {"mount root", "mount efi", "mount boot"},
             Head(session.queue) = Try(do)
      PROVE  /\ ~Head(session.queue).checked
             /\ Went => Filled' /\ Off' /\ bare' = {} /\ mapper' = NoDisk
                        /\ session'.encrypt
  <2>1. Head(session.queue).do = do /\ ~Head(session.queue).checked BY <1>2, CommandFields
  <2>2. ~Possible(Head(session.queue)) BY <1>1, <2>1, NothingToMount
  <2>3. ASSUME Went
        PROVE  Filled' /\ Off' /\ bare' = {} /\ mapper' = NoDisk /\ session'.encrypt
    <3>1. /\ content' = content /\ mnt' = mnt /\ bare' = bare /\ mapper' = mapper
          /\ session'.encrypt
      BY <2>2, <2>3 DEF Went, machine
    <3> QED BY <1>0, <2>3, <3>1, FilledUntouched DEF Off
  <2> QED BY <2>1, <2>3
<1>3. CASE efi /\ Queue(<<Try("mount root"), Try("mount efi"), Try("mount boot")>>)
  <2>1. /\ Head(session.queue) = Try("mount root")
        /\ session'.queue = Tail(session.queue) =>
             Queue(<<Try("mount efi"), Try("mount boot")>>)'
    BY <1>3, QueueGoes
  <2>2. ASSUME Went PROVE Story20'
    <3>1. Queue(<<Try("mount efi"), Try("mount boot")>>)' /\ efi'
      BY <1>3, <2>1, <2>2 DEF Went
    <3>2. Again(NoDisk, NoDisk)' BY <1>2, <2>1, <2>2 DEF Again
    <3> QED BY <1>2, <2>1, <2>2, <3>1, <3>2 DEF Story20
  <2> QED BY <1>2, <2>1, <2>2
<1>4. CASE ~efi /\ Queue(<<Try("mount root"), Try("mount boot")>>)
  <2>1. /\ Head(session.queue) = Try("mount root")
        /\ session'.queue = Tail(session.queue) => Queue(<<Try("mount boot")>>)'
    BY <1>4, QueueGoes
  <2>2. ASSUME Went PROVE Story20'
    <3>1. Queue(<<Try("mount boot")>>)' BY <2>1, <2>2 DEF Went
    <3>2. Again(Esp, NoDisk)' BY <1>2, <2>1, <2>2 DEF Again
    <3> QED BY <1>2, <2>1, <2>2, <3>1, <3>2 DEF Story20
  <2> QED BY <1>2, <2>1, <2>2
<1>5. CASE efi /\ Queue(<<Try("mount efi"), Try("mount boot")>>)
  <2>1. /\ Head(session.queue) = Try("mount efi")
        /\ session'.queue = Tail(session.queue) => Queue(<<Try("mount boot")>>)'
    BY <1>5, QueueGoes
  <2>2. ASSUME Went PROVE Story20'
    <3>1. Queue(<<Try("mount boot")>>)' BY <2>1, <2>2 DEF Went
    <3>2. Again(Esp, NoDisk)' BY <1>2, <2>1, <2>2 DEF Again
    <3> QED BY <1>2, <2>1, <2>2, <3>1, <3>2 DEF Story20
  <2> QED BY <1>2, <2>1, <2>2
<1>6. CASE Queue(<<Try("mount boot")>>)
  <2>1. /\ Head(session.queue) = Try("mount boot")
        /\ session'.queue = Tail(session.queue) => Queue(<<>>)'
    BY <1>6, QueueGoes
  <2>2. ASSUME Went PROVE Story20'
    <3>1. Queue(<<>>)' BY <2>1, <2>2 DEF Went
    <3>2. Again(Esp, Disk)' BY <1>2, <2>1, <2>2 DEF Again
    <3> QED BY <1>2, <2>1, <2>2, <3>1, <3>2 DEF Story20
  <2> QED BY <1>2, <2>1, <2>2
<1> QED BY <1>3, <1>4, <1>5, <1>6, BusyFacts, QueueGoes DEF Story20

\* What the bootloader finds on the disk stays there, whatever it writes next to it.
LEMMA KeptStays ==
  ASSUME Kept, Went, NEW old, NEW new,
         old = content[session.disk], new = content'[session.disk],
         new.parts = old.parts, new.boot = old.boot, new.luks = old.luks,
         new.btrfs = old.btrfs, Lying(old) \subseteq Lying(new),
         NEW f, f \notin ConfigFiles \cup {"packages"}, bare' \subseteq bare \cup {f}
  PROVE  Kept'
<1>1. Rooted' /\ "kernel" \in content'[session'.disk].boot
  BY DEF Kept, Rooted, Went, Disk
<1>2. Held = Lying(old) BY DEF Held, Disk
<1>3. Held' = Lying(new) BY DEF Held, Went, Disk
<1>4. DueFiles \subseteq Held' BY <1>2, <1>3 DEF Kept
<1>5. bare' \cap (ConfigFiles \cup {"packages"}) = {} BY DEF Kept
<1>6. (DueFiles \subseteq Held)' BY <1>4 DEF DueFiles, ConfigFiles
<1>7. (bare \cap (ConfigFiles \cup {"packages"}) = {})' BY <1>5 DEF ConfigFiles
<1>8. ("kernel" \in content[Disk].boot)' BY <1>1 DEF Disk
<1> QED BY <1>1, <1>6, <1>7, <1>8 DEF Kept

LEMMA EnteredStays ==
  ASSUME Went, NEW old, NEW new,
         old = content[session.disk], new = content'[session.disk], new.esp = old.esp,
         Lying(new) \cap {"grub", "grub.cfg"} \subseteq Lying(old)
  PROVE  /\ Unentered => Unentered'
         /\ Loaded => Loaded'
         /\ Entered => Entered'
<1>1. Held = Lying(old) BY DEF Held, Disk
<1>2. Held' = Lying(new) BY DEF Held, Went, Disk
<1>3. /\ efi' = efi /\ session'.encrypt = session.encrypt
      /\ content'[session'.disk].esp = content[session.disk].esp
  BY DEF Went
<1>4. Grubless => Grubless' BY <1>1, <1>2 DEF Grubless
<1>5. Unentered => Unentered' BY <1>3, <1>4 DEF Unentered, Disk
<1>6. Loaded => Loaded' BY <1>3, <1>5 DEF Loaded, Disk
<1>7. Entered => Entered' BY <1>3, <1>5 DEF Entered, Disk
<1> QED BY <1>5, <1>6, <1>7

LEMMA EnteredUntouched ==
  ASSUME Went, content' = content
  PROVE  /\ Unentered => Unentered'
         /\ Loaded => Loaded'
         /\ Entered => Entered'
BY EnteredStays

LEMMA AgainStays ==
  ASSUME Again(Esp, Disk), Went, mnt' = mnt PROVE Again(Esp, Disk)'
<1>1. Esp' = Esp BY EspStays
<1> QED BY <1>1 DEF Again, On, Off, Went, Disk

\* Without a mount a file goes to the live system's own directory.
LEMMA BareEffects ==
  ASSUME Off, NEW f, Store(f) PROVE content' = content /\ bare' = bare \cup {f}
BY OffFacts DEF Store

\* The boot loader and its entries go to the EFI partition that is mounted.
LEMMA EspEffects ==
  ASSUME Busy, On("@", Disk, Disk), NEW f \in {"loader", "entries"}, Store(f), NEW old, NEW new,
         old = content[session.disk], new = content'[session.disk]
  PROVE  /\ bare' = bare /\ new.parts = old.parts /\ new.boot = old.boot
         /\ new.luks = old.luks /\ new.btrfs = old.btrfs /\ Lying(new) = Lying(old)
         /\ new.esp = old.esp \cup {f}
<1>1. old \in Content BY BusyFacts
<1>2. Top.efi = Disk /\ Disk # NoDisk BY OnFacts, BusyFacts DEF Disk
<1>3. Put(Disk, [old EXCEPT !.esp = @ \cup {f}]) /\ bare' = bare
  BY <1>2 DEF Store, Disk
<1> DEFINE esp == old.esp \cup {f}
<1>4. Put(Disk, [old EXCEPT !.esp = esp]) BY <1>3
<1> HIDE DEF esp
<1>6. new = [old EXCEPT !.esp = esp] BY <1>4, PutFacts
<1>7. /\ new.parts = old.parts /\ new.boot = old.boot /\ new.luks = old.luks
      /\ new.btrfs = old.btrfs /\ new.files = old.files /\ new.esp = esp
  BY <1>1, <1>6 DEF Content
<1> QED BY <1>3, <1>7 DEF Lying, esp

LEMMA WrittenBesides ==
  ASSUME Busy, Went, Kept, Again(Esp, Disk), mnt' = mnt, NEW f \in Files,
         f \notin ConfigFiles \cup {"packages", "loader", "entries", "grub", "grub.cfg"},
         Store(f)
  PROVE  /\ Kept' /\ Again(Esp, Disk)'
         /\ Unentered => Unentered'
         /\ Loaded => Loaded'
<1> DEFINE old == content[session.disk]
           new == content'[session.disk]
<1>1. old = content[session.disk] /\ new = content'[session.disk] OBVIOUS
<1>2. Again(Esp, Disk)' BY AgainStays
<1> HIDE DEF old, new
<1>3. CASE session.encrypt
  <2>1. Off BY <1>3 DEF Again
  <2>2. content' = content /\ bare' = bare \cup {f} BY <2>1, BareEffects
  <2>3. new = old BY <1>1, <2>2
  <2>4. Kept' BY <1>1, <2>2, <2>3, KeptStays
  <2>5. (Unentered => Unentered') /\ (Loaded => Loaded') BY <2>2, EnteredUntouched
  <2> QED BY <1>2, <2>4, <2>5
<1>4. CASE ~session.encrypt
  <2>1. On("@", Esp, Disk) BY <1>4 DEF Again
  <2>2. /\ bare' = bare /\ new.parts = old.parts /\ new.boot = old.boot
        /\ new.esp = old.esp /\ new.luks = old.luks /\ new.btrfs = old.btrfs
        /\ Lying(new) = Lying(old) \cup {f}
    BY <1>1, <2>1, StoreEffects
  <2>3. Lying(old) \subseteq Lying(new) /\ bare' \subseteq bare \cup {f} BY <2>2
  <2>4. Kept' BY <1>1, <2>2, <2>3, KeptStays
  <2>5. Lying(new) \cap {"grub", "grub.cfg"} \subseteq Lying(old) BY <2>2
  <2>6. (Unentered => Unentered') /\ (Loaded => Loaded')
    BY <1>1, <2>2, <2>5, EnteredStays
  <2> QED BY <1>2, <2>4, <2>6
<1> QED BY <1>3, <1>4

\* The boot loader of a root that is not encrypted.
LEMMA LoaderWritten ==
  ASSUME Busy, Went, Kept, Again(Esp, Disk), mnt' = mnt, efi, ~session.encrypt,
         NEW f \in {"loader", "entries"}, Store(f)
  PROVE  /\ Kept' /\ Again(Esp, Disk)'
         /\ Unentered /\ f = "loader" => Loaded'
         /\ Loaded /\ f = "entries" => Entered'
<1> DEFINE old == content[session.disk]
           new == content'[session.disk]
<1>1. old = content[session.disk] /\ new = content'[session.disk] OBVIOUS
<1>2. Again(Esp, Disk)' BY AgainStays
<1>3. f \notin ConfigFiles \cup {"packages"} BY DEF ConfigFiles
<1> HIDE DEF old, new
<1>4. On("@", Disk, Disk) BY DEF Again, Esp
<1>5. /\ bare' = bare /\ new.parts = old.parts /\ new.boot = old.boot
      /\ new.luks = old.luks /\ new.btrfs = old.btrfs /\ Lying(new) = Lying(old)
      /\ new.esp = old.esp \cup {f}
  BY <1>1, <1>4, EspEffects
<1>6. Lying(old) \subseteq Lying(new) /\ bare' \subseteq bare \cup {f} BY <1>5
<1>7. Kept' BY <1>1, <1>3, <1>5, <1>6, KeptStays
<1>8. /\ efi' /\ ~session'.encrypt /\ content'[session'.disk].esp = new.esp
      /\ content[session.disk].esp = old.esp
  BY <1>1 DEF Went
<1>9. Unentered /\ f = "loader" => Loaded'
  <2> SUFFICES ASSUME Unentered, f = "loader" PROVE Loaded' OBVIOUS
  <2>1. old.esp = {"fat"} BY <1>8 DEF Unentered, Disk
  <2>2. new.esp = {"fat", "loader"} BY <1>5, <2>1
  <2> QED BY <1>8, <2>2 DEF Loaded, Disk
<1>10. Loaded /\ f = "entries" => Entered'
  <2> SUFFICES ASSUME Loaded, f = "entries" PROVE Entered' OBVIOUS
  <2>1. old.esp = {"fat", "loader"} BY <1>8 DEF Loaded, Disk
  <2>2. new.esp = {"fat", "loader", "entries"} BY <1>5, <2>1
  <2> QED BY <1>8, <2>2 DEF Entered, Disk
<1> QED BY <1>2, <1>7, <1>9, <1>10

LEMMA EntriesWritten ==
  ASSUME Busy, Went, Kept, Again(Esp, Disk), mnt' = mnt, efi, Loaded, Store("entries")
  PROVE  Kept' /\ Again(Esp, Disk)' /\ Entered'
<1>1. CASE session.encrypt
  <2>1. Off BY <1>1 DEF Again
  <2>2. content' = content /\ bare' = bare \cup {"entries"} BY <2>1, BareEffects
  <2>3. "entries" \notin ConfigFiles \cup {"packages"} BY DEF ConfigFiles
  <2>4. Kept' BY <2>2, <2>3, KeptStays
  <2>5. Again(Esp, Disk)' BY AgainStays
  <2>6. Loaded' BY <2>2, EnteredUntouched
  <2>7. session'.encrypt BY <1>1 DEF Went
  <2> QED BY <2>4, <2>5, <2>6, <2>7 DEF Loaded, Entered
<1>2. CASE ~session.encrypt BY <1>2, LoaderWritten
<1> QED BY <1>1, <1>2

LEMMA BootFiles ==
  /\ \A f \in {"efi", "grub defaults", "firstboot service"} :
       /\ f \notin ConfigFiles \cup {"packages", "loader", "entries", "grub", "grub.cfg"}
       /\ f \notin ConfigFiles \cup {"packages"} /\ f \in Files
  /\ \A f \in {"efi", "grub defaults", "firstboot service", "entries"} :
       f \notin {"firstboot enabled", "loader", "grub", "grub.cfg"}
BY DEF Files, ConfigFiles

\* A command that is left out.
LEMMA LeftOut ==
  ASSUME Busy, Went, ~Possible(Head(session.queue)), Kept, mapper = NoDisk, Again(Esp, Disk)
  PROVE  /\ Kept' /\ mapper' = NoDisk /\ Again(Esp, Disk)'
         /\ Unentered => Unentered'
         /\ Loaded => Loaded'
         /\ Entered => Entered'
<1>1. content' = content /\ mnt' = mnt /\ mapper' = mapper /\ bare' = bare
  BY DEF Went, machine
<1>2. Kept' BY <1>1, KeptStays, BootFiles
<1>3. Again(Esp, Disk)' BY <1>1, AgainStays
<1> QED BY <1>1, <1>2, <1>3, EnteredUntouched

\* What a program in the chroot finds.
LEMMA ChrootFinds ==
  ASSUME Busy, Kept, Again(Esp, Disk), NEW c, c.do = "chroot"
  PROVE  /\ session.encrypt => ~Possible(c)
         /\ ~session.encrypt /\ efi /\ c.what = "loader" => Possible(c)
         /\ ~efi /\ Unentered /\ c.what \in {"grub", "grub.cfg"} => ~Possible(c)
<1>1. CASE session.encrypt
  <2>1. Off BY <1>1 DEF Again
  <2>2. "packages" \notin Visible BY <2>1, OffFacts DEF Kept
  <2>3. ~Possible(c) BY <2>2, NothingToMount
  <2> QED BY <1>1, <2>3
<1>2. CASE ~session.encrypt
  <2>1. On("@", Esp, Disk) BY <1>2 DEF Again
  <2>2. Visible = Held /\ Top.efi = Esp BY <2>1, OnFacts DEF FilesOf, Held, Lying
  <2>3. "packages" \in Visible BY <2>2 DEF Kept, DueFiles
  <2>4. efi => Top.efi # NoDisk BY <2>2, BusyFacts DEF Esp, Disk
  <2>5. efi /\ c.what = "loader" => Possible(c) BY <2>3, <2>4 DEF Possible
  <2>6. ~efi /\ Unentered => "grub" \notin Visible BY <2>2 DEF Unentered, Grubless
  <2>7. ~efi /\ Unentered /\ c.what \in {"grub", "grub.cfg"} => ~Possible(c)
    BY <2>6, NothingToMount
  <2> QED BY <1>2, <2>5, <2>7
<1> QED BY <1>1, <1>2

LEMMA EntryStory ==
  ASSUME Busy, Story21
  PROVE  /\ Possible(Head(session.queue)) \/ ~Head(session.queue).checked
         /\ Went => Story21'
<1>0. Kept /\ mapper = NoDisk /\ Again(Esp, Disk) BY DEF Story21
<1>1. CASE /\ efi /\ Unentered
           /\ Queue(<<Chroot("loader"), Write("efi"), TryWrite("entries")>>)
  <2>1. /\ Head(session.queue) = Chroot("loader")
        /\ session'.queue = Tail(session.queue) =>
             Queue(<<Write("efi"), TryWrite("entries")>>)'
    BY <1>1, QueueGoes
  <2>2. /\ Head(session.queue).do = "chroot" /\ Head(session.queue).what = "loader"
        /\ ~Head(session.queue).checked
    BY <2>1, CommandFields
  <2>3. ASSUME Went PROVE Story21'
    <3>1. Queue(<<Write("efi"), TryWrite("entries")>>)' /\ efi'
      BY <1>1, <2>1, <2>3 DEF Went
    <3>2. Kept' /\ Again(Esp, Disk)' /\ Loaded' /\ mapper' = NoDisk
      <4>1. CASE session.encrypt
        <5>1. ~Possible(Head(session.queue)) BY <1>0, <2>2, <4>1, ChrootFinds
        <5>2. Loaded BY <1>1, <4>1 DEF Loaded
        <5> QED BY <1>0, <2>3, <5>1, <5>2, LeftOut
      <4>2. CASE ~session.encrypt
        <5>1. Possible(Head(session.queue)) BY <1>0, <1>1, <2>2, <4>2, ChrootFinds
        <5>2. WriteFile BY <2>2, <2>3, <5>1, Effects DEF Went
        <5>3. Store("loader") /\ mnt' = mnt /\ mapper' = mapper
          BY <2>2, <5>2 DEF WriteFile
        <5> QED BY <1>0, <1>1, <2>3, <4>2, <5>3, LoaderWritten
      <4> QED BY <4>1, <4>2
    <3> QED BY <3>1, <3>2 DEF Story21
  <2> QED BY <2>2, <2>3
<1>2. CASE efi /\ Loaded /\ Queue(<<Write("efi"), TryWrite("entries")>>)
  <2>1. /\ Head(session.queue) = Write("efi")
        /\ session'.queue = Tail(session.queue) => Queue(<<TryWrite("entries")>>)'
    BY <1>2, QueueGoes
  <2>2. Head(session.queue).do = "write" /\ Head(session.queue).what = "efi"
    BY <2>1, CommandFields
  <2>3. Possible(Head(session.queue)) BY <2>2, Needs
  <2>4. ASSUME Went PROVE Story21'
    <3>1. WriteFile BY <2>2, <2>3, <2>4, Effects DEF Went
    <3>2. Store("efi") /\ mnt' = mnt /\ mapper' = mapper BY <2>2, <3>1 DEF WriteFile
    <3>3. Kept' /\ Again(Esp, Disk)' /\ Loaded'
      BY <1>0, <1>2, <2>4, <3>2, WrittenBesides, BootFiles
    <3>4. Queue(<<TryWrite("entries")>>)' /\ efi' BY <1>2, <2>1, <2>4 DEF Went
    <3>5. mapper' = NoDisk BY <1>0, <3>2
    <3> QED BY <3>3, <3>4, <3>5 DEF Story21
  <2> QED BY <2>3, <2>4
<1>3. CASE efi /\ Loaded /\ Queue(<<TryWrite("entries")>>)
  <2>1. /\ Head(session.queue) = TryWrite("entries")
        /\ session'.queue = Tail(session.queue) => Queue(<<>>)'
    BY <1>3, QueueGoes
  <2>2. Head(session.queue).do = "write" /\ Head(session.queue).what = "entries"
    BY <2>1, CommandFields
  <2>3. Possible(Head(session.queue)) BY <2>2, Needs
  <2>4. ASSUME Went PROVE Story21'
    <3>1. WriteFile BY <2>2, <2>3, <2>4, Effects DEF Went
    <3>2. Store("entries") /\ mnt' = mnt /\ mapper' = mapper BY <2>2, <3>1 DEF WriteFile
    <3>3. Kept' /\ Again(Esp, Disk)' /\ Entered'
      BY <1>0, <1>3, <2>4, <3>2, EntriesWritten
    <3>4. Queue(<<>>)' BY <2>1, <2>4 DEF Went
    <3>5. mapper' = NoDisk BY <1>0, <3>2
    <3> QED BY <3>3, <3>4, <3>5 DEF Story21
  <2> QED BY <2>3, <2>4
<1>4. CASE /\ ~efi /\ Unentered
           /\ Queue(<<Chroot("grub"), Write("grub defaults"), Chroot("grub.cfg")>>)
  <2>1. /\ Head(session.queue) = Chroot("grub")
        /\ session'.queue = Tail(session.queue) =>
             Queue(<<Write("grub defaults"), Chroot("grub.cfg")>>)'
    BY <1>4, QueueGoes
  <2>2. /\ Head(session.queue).do = "chroot" /\ Head(session.queue).what = "grub"
        /\ ~Head(session.queue).checked
    BY <2>1, CommandFields
  <2>3. ~Possible(Head(session.queue)) BY <1>0, <1>4, <2>2, ChrootFinds
  <2>4. ASSUME Went PROVE Story21'
    <3>1. Kept' /\ mapper' = NoDisk /\ Again(Esp, Disk)' /\ Unentered'
      BY <1>0, <1>4, <2>3, <2>4, LeftOut
    <3>2. Queue(<<Write("grub defaults"), Chroot("grub.cfg")>>)' /\ ~efi'
      BY <1>4, <2>1, <2>4 DEF Went
    <3> QED BY <3>1, <3>2 DEF Story21
  <2> QED BY <2>2, <2>4
<1>5. CASE ~efi /\ Unentered /\ Queue(<<Write("grub defaults"), Chroot("grub.cfg")>>)
  <2>1. /\ Head(session.queue) = Write("grub defaults")
        /\ session'.queue = Tail(session.queue) => Queue(<<Chroot("grub.cfg")>>)'
    BY <1>5, QueueGoes
  <2>2. Head(session.queue).do = "write" /\ Head(session.queue).what = "grub defaults"
    BY <2>1, CommandFields
  <2>3. Possible(Head(session.queue)) BY <2>2, Needs
  <2>4. ASSUME Went PROVE Story21'
    <3>1. WriteFile BY <2>2, <2>3, <2>4, Effects DEF Went
    <3>2. Store("grub defaults") /\ mnt' = mnt /\ mapper' = mapper
      BY <2>2, <3>1 DEF WriteFile
    <3>3. Kept' /\ Again(Esp, Disk)' /\ Unentered'
      BY <1>0, <1>5, <2>4, <3>2, WrittenBesides, BootFiles
    <3>4. Queue(<<Chroot("grub.cfg")>>)' /\ ~efi' BY <1>5, <2>1, <2>4 DEF Went
    <3>5. mapper' = NoDisk BY <1>0, <3>2
    <3> QED BY <3>3, <3>4, <3>5 DEF Story21
  <2> QED BY <2>3, <2>4
<1>6. CASE ~efi /\ Unentered /\ Queue(<<Chroot("grub.cfg")>>)
  <2>1. /\ Head(session.queue) = Chroot("grub.cfg")
        /\ session'.queue = Tail(session.queue) => Queue(<<>>)'
    BY <1>6, QueueGoes
  <2>2. /\ Head(session.queue).do = "chroot" /\ Head(session.queue).what = "grub.cfg"
        /\ ~Head(session.queue).checked
    BY <2>1, CommandFields
  <2>3. ~Possible(Head(session.queue)) BY <1>0, <1>6, <2>2, ChrootFinds
  <2>4. ASSUME Went PROVE Story21'
    <3>1. Entered BY <1>6 DEF Entered
    <3>2. Kept' /\ mapper' = NoDisk /\ Again(Esp, Disk)' /\ Entered'
      BY <1>0, <2>3, <2>4, <3>1, LeftOut
    <3>3. Queue(<<>>)' BY <2>1, <2>4 DEF Went
    <3> QED BY <3>2, <3>3 DEF Story21
  <2> QED BY <2>2, <2>4
<1> QED BY <1>1, <1>2, <1>3, <1>4, <1>5, <1>6, BusyFacts, QueueGoes DEF Story21

LEMMA ReleaseStory ==
  ASSUME Busy, Story22
  PROVE  Possible(Head(session.queue)) /\ (Went => Story22')
<1>1. Kept /\ mapper = NoDisk /\ Entered BY DEF Story22
<1>2. On("@", Esp, Disk) /\ Queue(<<Try("umount")>>) BY BusyFacts, QueueGoes DEF Story22
<1>3. /\ Head(session.queue) = Try("umount")
      /\ session'.queue = Tail(session.queue) => Queue(<<>>)'
  BY <1>2, QueueGoes
<1>4. IsMounted BY <1>2, OnFacts
<1>5. Possible(Head(session.queue)) BY <1>3, <1>4, CommandFields, Needs
<1>6. ASSUME Went PROVE Story22'
  <2>1. Umount BY <1>3, <1>5, <1>6, CommandFields, Effects DEF Went
  <2>2. content' = content /\ mapper' = mapper /\ bare' = bare BY <2>1 DEF Umount
  <2>3. Kept' BY <1>1, <1>6, <2>2, KeptStays, BootFiles
  <2>4. Entered' BY <1>1, <1>6, <2>2, EnteredUntouched
  <2>5. mnt' = <<LiveDirectory>> BY <1>2, <2>1, MountEffects
  <2>6. Queue(<<>>)' BY <1>3, <1>6 DEF Went
  <2>7. mapper' = NoDisk BY <1>1, <2>2
  <2> QED BY <2>3, <2>4, <2>5, <2>6, <2>7 DEF Story22, Off
<1> QED BY <1>5, <1>6

LEMMA FirstBootStory ==
  ASSUME Busy, Story24
  PROVE  Possible(Head(session.queue)) /\ (Went => Story24')
<1>1. Kept /\ Shut /\ Entered BY DEF Story24, StoryEnd
<1>2. Queue(<<TryWrite("firstboot service")>>) BY BusyFacts, QueueGoes DEF Story24
<1>3. /\ Head(session.queue) = TryWrite("firstboot service")
      /\ session'.queue = Tail(session.queue) => Queue(<<>>)'
  BY <1>2, QueueGoes
<1>4. Head(session.queue).do = "write" /\ Head(session.queue).what = "firstboot service"
  BY <1>3, CommandFields
<1>5. Possible(Head(session.queue)) BY <1>4, Needs
<1>6. ASSUME Went PROVE Story24'
  <2>1. WriteFile BY <1>4, <1>5, <1>6, Effects DEF Went
  <2>2. Store("firstboot service") /\ mnt' = mnt /\ mapper' = mapper
    BY <1>4, <2>1 DEF WriteFile
  <2>3. content' = content /\ bare' = bare \cup {"firstboot service"}
    BY <1>1, <2>2, BareEffects DEF Shut
  <2>4. Kept' BY <1>1, <1>6, <2>3, KeptStays, BootFiles
  <2>5. Entered' BY <1>1, <1>6, <2>3, EnteredUntouched
  <2>6. Shut' BY <1>1, <2>2 DEF Shut, Off
  <2>7. Queue(<<>>)' BY <1>3, <1>6 DEF Went
  <2> QED BY <2>4, <2>5, <2>6, <2>7 DEF Story24, StoryEnd
<1> QED BY <1>5, <1>6

----------------------------------------------------------------------------
(* From step to step *)

\* The commands of a real session.
LEMMA DiskQueues ==
  ASSUME RealInstall
  PROVE  /\ CommandsOf(Program[1], session) = <<Run("zap"), Run("new partitions")>>
         /\ efi => CommandsOf(Program[2], session) = <<Run("mkfs efi"), Run("mkfs boot")>>
         /\ ~efi => CommandsOf(Program[2], session) = <<Run("mkfs boot")>>
         /\ session.encrypt =>
              CommandsOf(Program[3], session) = <<Run("luksFormat"), Run("luksOpen")>>
         /\ ~session.encrypt => CommandsOf(Program[3], session) = <<>>
         /\ CommandsOf(Program[4], session) =
              <<Run("mkfs root"), Run("mount top"), Run("create subvolumes"), Run("umount")>>
<1>1. session.disk # NoDisk BY DEF RealInstall
<1>2. CommandsOf(Program[1], session) = <<Run("zap"), Run("new partitions")>>
  BY <1>1, StepCommands DEF PartitionCommands, OnDisk
<1>3. /\ efi => CommandsOf(Program[2], session) = <<Run("mkfs efi"), Run("mkfs boot")>>
      /\ ~efi => CommandsOf(Program[2], session) = <<Run("mkfs boot")>>
  BY <1>1, StepCommands DEF FormatCommands, OnDisk
<1>4. /\ session.encrypt =>
           CommandsOf(Program[3], session) = <<Run("luksFormat"), Run("luksOpen")>>
      /\ ~session.encrypt => CommandsOf(Program[3], session) = <<>>
  BY <1>1, StepCommands DEF LuksCommands, OnDisk
<1>5. CommandsOf(Program[4], session) =
        <<Run("mkfs root"), Run("mount top"), Run("create subvolumes"), Run("umount")>>
  BY <1>1, StepCommands DEF BtrfsCommands, OnDisk
<1> QED BY <1>2, <1>3, <1>4, <1>5

LEMMA MountQueue ==
  ASSUME RealInstall
  PROVE  /\ efi => CommandsOf(Program[5], session) =
              <<Run("mount root"), Run("mount subvolumes"), Write("efi"),
                Run("mount efi"), Write("boot"), Run("mount boot")>>
         /\ ~efi => CommandsOf(Program[5], session) =
              <<Run("mount root"), Run("mount subvolumes"), Write("boot"),
                Run("mount boot")>>
<1> DEFINE a == Run("mount root")
           b == Run("mount subvolumes")
           c == Write("efi")
           d == Run("mount efi")
           e == Write("boot")
           f == Run("mount boot")
<1>1. session.disk # NoDisk /\ ~session.dry BY DEF RealInstall
<1>2. /\ a \in Commands /\ b \in Commands /\ c \in Commands
      /\ d \in Commands /\ e \in Commands /\ f \in Commands
  BY CommandTypes, OtherCommands
<1>3. /\ efi => CommandsOf(Program[5], session) =
                  <<a, b>> \o (<<c>> \o <<d>>) \o <<e>> \o <<f>>
      /\ ~efi => CommandsOf(Program[5], session) = <<a, b>> \o <<>> \o <<e>> \o <<f>>
  BY <1>1, StepCommands DEF MountCommands, OnDisk, OnlyLive
<1> HIDE DEF a, b, c, d, e, f
<1>4. <<c>> \o <<d>> = <<c, d>> BY <1>2, Joined
<1>5. <<a, b>> \o <<c, d>> = <<a, b, c, d>> BY <1>2, Joined
<1>6. <<a, b, c, d>> \o <<e>> = <<a, b, c, d, e>> BY <1>2, Joined
<1>7. <<a, b, c, d, e>> \o <<f>> = <<a, b, c, d, e, f>> BY <1>2, Joined
<1>8. <<a, b>> \o <<>> = <<a, b>> BY <1>2, Joined
<1>9. <<a, b>> \o <<e>> = <<a, b, e>> BY <1>2, Joined
<1>10. <<a, b, e>> \o <<f>> = <<a, b, e, f>> BY <1>2, Joined
<1>11. efi => CommandsOf(Program[5], session) = <<a, b, c, d, e, f>>
  BY <1>3, <1>4, <1>5, <1>6, <1>7, Zenon
<1>12. ~efi => CommandsOf(Program[5], session) = <<a, b, e, f>>
  BY <1>3, <1>8, <1>9, <1>10, Zenon
<1> QED BY <1>11, <1>12 DEF a, b, c, d, e, f

LEMMA UnmountQueue ==
  ASSUME RealInstall
  PROVE  /\ session.encrypt => CommandsOf(Program[19], session) =
              <<Try("umount below"), Try("umount"), Try("luksClose")>>
         /\ ~session.encrypt => CommandsOf(Program[19], session) =
              <<Try("umount below"), Try("umount")>>
<1> DEFINE a == Try("umount below")
           b == Try("umount")
           c == Try("luksClose")
<1>1. session.disk # NoDisk /\ ~session.dry BY DEF RealInstall
<1>2. a \in Commands /\ b \in Commands /\ c \in Commands
  BY CommandTypes, OtherCommands
<1>3. /\ session.encrypt => CommandsOf(Program[19], session) = <<a, b>> \o <<c>>
      /\ ~session.encrypt => CommandsOf(Program[19], session) = <<a, b>> \o <<>>
  BY <1>1, StepCommands DEF UnmountCommands, CloseCommands, OnDisk, OnlyLive
<1> HIDE DEF a, b, c
<1>4. <<a, b>> \o <<c>> = <<a, b, c>> /\ <<a, b>> \o <<>> = <<a, b>>
  BY <1>2, Joined
<1>5. session.encrypt => CommandsOf(Program[19], session) = <<a, b, c>>
  BY <1>3, <1>4, Zenon
<1>6. ~session.encrypt => CommandsOf(Program[19], session) = <<a, b>>
  BY <1>3, <1>4, Zenon
<1> QED BY <1>5, <1>6 DEF a, b, c

LEMMA RemountQueue ==
  ASSUME RealInstall, ~IsMounted
  PROVE  /\ efi => CommandsOf(Program[20], session) =
              <<Try("mount root"), Try("mount efi"), Try("mount boot")>>
         /\ ~efi => CommandsOf(Program[20], session) =
              <<Try("mount root"), Try("mount boot")>>
<1> DEFINE a == Try("mount root")
           b == Try("mount efi")
           c == Try("mount boot")
<1>1. session.disk # NoDisk /\ ~session.dry BY DEF RealInstall
<1>2. a \in Commands /\ b \in Commands /\ c \in Commands
  BY CommandTypes, OtherCommands
<1>3. /\ efi => CommandsOf(Program[20], session) = <<a>> \o <<b>> \o <<c>>
      /\ ~efi => CommandsOf(Program[20], session) = <<a>> \o <<>> \o <<c>>
  BY <1>1, StepCommands DEF RemountCommands, OnDisk, OnlyLive
<1> HIDE DEF a, b, c
<1>4. /\ <<a>> \o <<b>> = <<a, b>> /\ <<a, b>> \o <<c>> = <<a, b, c>>
      /\ <<a>> \o <<>> = <<a>> /\ <<a>> \o <<c>> = <<a, c>>
  BY <1>2, Joined
<1>5. efi => CommandsOf(Program[20], session) = <<a, b, c>> BY <1>3, <1>4, Zenon
<1>6. ~efi => CommandsOf(Program[20], session) = <<a, c>> BY <1>3, <1>4, Zenon
<1> QED BY <1>5, <1>6 DEF a, b, c

LEMMA EntryQueues ==
  ASSUME ~session.dry
  PROVE  /\ efi => CommandsOf(Program[21], session) =
              <<Chroot("loader"), Write("efi"), TryWrite("entries")>>
         /\ ~efi => CommandsOf(Program[21], session) =
              <<Chroot("grub"), Write("grub defaults"), Chroot("grub.cfg")>>
<1>1. ~session.dry OBVIOUS
<1>2. ASSUME efi
      PROVE  CommandsOf(Program[21], session) =
               <<Chroot("loader"), Write("efi"), TryWrite("entries")>>
  <2> DEFINE a == Chroot("loader")
             b == Write("efi")
             c == TryWrite("entries")
  <2>1. a \in Commands /\ b \in Commands /\ c \in Commands
    BY CommandTypes, OtherCommands
  <2>2. CommandsOf(Program[21], session) = <<a>> \o <<b, c>>
    BY <1>1, <1>2, StepCommands DEF BootEntryCommands, SystemdBootCommands, OnlyLive
  <2> HIDE DEF a, b, c
  <2>3. <<a>> \o <<b, c>> = <<a, b, c>> BY <2>1, Joined
  <2>4. CommandsOf(Program[21], session) = <<a, b, c>> BY <2>2, <2>3, Zenon
  <2> QED BY <2>4 DEF a, b, c
<1>3. ASSUME ~efi
      PROVE  CommandsOf(Program[21], session) =
               <<Chroot("grub"), Write("grub defaults"), Chroot("grub.cfg")>>
  <2> DEFINE a == Chroot("grub")
             b == Write("grub defaults")
             c == Chroot("grub.cfg")
  <2>1. a \in Commands /\ b \in Commands /\ c \in Commands
    BY CommandTypes, OtherCommands
  <2>2. CommandsOf(Program[21], session) = (<<a>> \o <<b>>) \o <<c>>
    BY <1>1, <1>3, StepCommands DEF BootEntryCommands, GrubCommands, OnlyLive
  <2> HIDE DEF a, b, c
  <2>3. <<a>> \o <<b>> = <<a, b>> /\ <<a, b>> \o <<c>> = <<a, b, c>>
    BY <2>1, Joined
  <2>4. CommandsOf(Program[21], session) = <<a, b, c>> BY <2>2, <2>3, Zenon
  <2> QED BY <2>4 DEF a, b, c
<1> QED BY <1>2, <1>3

LEMMA BootQueues ==
  ASSUME RealInstall
  PROVE  /\ efi => CommandsOf(Program[21], session) =
              <<Chroot("loader"), Write("efi"), TryWrite("entries")>>
         /\ ~efi => CommandsOf(Program[21], session) =
              <<Chroot("grub"), Write("grub defaults"), Chroot("grub.cfg")>>
         /\ IsMounted /\ ~session.encrypt =>
              CommandsOf(Program[22], session) = <<Try("umount")>>
         /\ ~IsMounted => CommandsOf(Program[22], session) = <<>>
         /\ CommandsOf(Program[23], session) = <<Run("health check")>>
         /\ CommandsOf(Program[24], session) = <<TryWrite("firstboot service")>>
<1> DEFINE c == Try("umount")
<1>1. session.disk # NoDisk /\ ~session.dry BY DEF RealInstall
<1>2. c \in Commands BY CommandTypes, OtherCommands
<1>3. /\ efi => CommandsOf(Program[21], session) =
           <<Chroot("loader"), Write("efi"), TryWrite("entries")>>
      /\ ~efi => CommandsOf(Program[21], session) =
           <<Chroot("grub"), Write("grub defaults"), Chroot("grub.cfg")>>
  BY <1>1, EntryQueues
<1>4. /\ IsMounted /\ ~session.encrypt => CommandsOf(Program[22], session) = <<c>> \o <<>>
      /\ ~IsMounted => CommandsOf(Program[22], session) = <<>>
  BY <1>1, StepCommands DEF ReleaseCommands, CloseCommands, OnDisk, OnlyLive
<1>5. CommandsOf(Program[23], session) = <<Run("health check")>>
  BY StepCommands DEF HealthCommands
<1>6. CommandsOf(Program[24], session) = <<TryWrite("firstboot service")>>
  BY <1>1, StepCommands DEF FirstBootCommands, OnlyLive
<1> HIDE DEF c
<1>7. <<c>> \o <<>> = <<c>> BY <1>2, Joined, Zenon
<1>8. IsMounted /\ ~session.encrypt => CommandsOf(Program[22], session) = <<c>>
  BY <1>4, <1>7, Zenon
<1> QED BY <1>3, <1>4, <1>5, <1>6, <1>8 DEF c

\* Steps 6 to 18 write what is due.
Brings(q, n) ==
  /\ Due(n) \subseteq {Filed(q[i]) : i \in DOMAIN q}
  /\ \A i \in DOMAIN q : Filing(q[i], n)

LEMMA OneBrings ==
  ASSUME NEW c, NEW n, Filing(c, n), Due(n) \subseteq {Filed(c)}
  PROVE  Brings(<<c>>, n)
<1> DEFINE q == <<c>>
<1>1. DOMAIN q = {1} /\ q[1] = c OBVIOUS
<1> HIDE DEF q
<1>2. Brings(q, n) BY <1>1 DEF Brings
<1> QED BY <1>2 DEF q

LEMMA FiledNames ==
  /\ \A f : Filed(Write(f)) = f /\ Filed(TryWrite(f)) = f /\ Filed(Chroot(f)) = f
  /\ Filed(Run("pacstrap")) = "packages"
BY CommandFields DEF Filed

Elsewhere ==
  {"packages", "loader", "entries", "grub", "grub.cfg", "firstboot enabled"}

LEMMA FilingCommands ==
  /\ \A n : Filing(Run("pacstrap"), n)
  /\ \A n, f : f \notin Elsewhere => Filing(Write(f), n) /\ Filing(TryWrite(f), n)
  /\ \A n, f : n > 6 /\ f \notin Elsewhere => Filing(Chroot(f), n)
  /\ \A n : n > 6 => Filing(Chroot("firstboot enabled"), n)
<1>1. ASSUME NEW n PROVE Filing(Run("pacstrap"), n)
  <2>1. /\ Run("pacstrap").do = "pacstrap" /\ Run("pacstrap").what = ""
        /\ Filed(Run("pacstrap")) = "packages"
    BY CommandFields, FiledNames
  <2> QED BY <2>1 DEF Filing
<1>2. ASSUME NEW n, NEW f, f \notin Elsewhere
      PROVE  /\ Filing(Write(f), n) /\ Filing(TryWrite(f), n)
             /\ n > 6 => Filing(Chroot(f), n)
  <2>1. /\ Write(f).do = "write" /\ Write(f).what = f /\ Filed(Write(f)) = f
        /\ TryWrite(f).do = "write" /\ TryWrite(f).what = f /\ Filed(TryWrite(f)) = f
        /\ Chroot(f).do = "chroot" /\ Chroot(f).what = f /\ Filed(Chroot(f)) = f
    BY CommandFields, FiledNames
  <2> QED BY <1>2, <2>1 DEF Filing, Elsewhere
<1>3. ASSUME NEW n, n > 6 PROVE Filing(Chroot("firstboot enabled"), n)
  <2> DEFINE c == Chroot("firstboot enabled")
  <2>1. /\ c.do = "chroot" /\ c.what = "firstboot enabled" /\ ~c.checked
        /\ Filed(c) = "firstboot enabled"
    BY CommandFields, FiledNames
  <2> HIDE DEF c
  <2>2. Filing(c, n) BY <1>3, <2>1 DEF Filing
  <2> QED BY <2>2 DEF c
<1> QED BY <1>1, <1>2, <1>3

LEMMA FileQueues ==
  ASSUME ~session.dry, NEW n \in 6 .. 18
  PROVE  Brings(CommandsOf(Program[n], session), n)
<1> DEFINE Q(k) == CommandsOf(Program[k], session)
<1>1. ~session.dry OBVIOUS
<1>2. /\ Q(6) = <<Run("pacstrap")>> /\ Q(7) = <<Write("fstab")>>
      /\ Q(8) = <<Write("hostname")>> /\ Q(9) = <<Write("locale")>>
      /\ Q(10) = <<TryWrite("timezone")>> /\ Q(11) = <<Write("network")>>
  BY <1>1, StepCommands
  DEF PackagesCommands, FstabCommands, HostnameCommands, LocaleCommands, TimezoneCommands,
      NetworkCommands, OnlyLive
<1>3. /\ Q(12) = <<Chroot("accounts")>> /\ Q(13) = <<Write("sudoers")>>
      /\ Q(14) = <<Write("limits")>> /\ Q(15) = <<Write("identity")>>
      /\ Q(16) = <<Chroot("initramfs")>>
      /\ Q(17) = <<Chroot("services"), Chroot("firstboot enabled")>>
      /\ Q(18) = <<Write("first-boot.json")>>
  BY <1>1, StepCommands
  DEF UsersCommands, SudoCommands, GroupsCommands, IdentityCommands, InitramfsCommands,
      ServicesCommands, FirstbootConfigCommands, OnlyLive
<1>4. /\ Due(6) = {"packages"} /\ Due(7) = {"fstab"} /\ Due(8) = {"hostname"}
      /\ Due(9) = {"locale"} /\ Due(10) = {} /\ Due(11) = {} /\ Due(12) = {"accounts"}
      /\ Due(13) = {"sudoers"} /\ Due(14) = {"limits"} /\ Due(15) = {"identity"}
      /\ Due(16) = {"initramfs"} /\ Due(17) = {} /\ Due(18) = {"first-boot.json"}
  BY DEF Due
<1> HIDE DEF Q
<1>5. /\ Brings(<<Run("pacstrap")>>, 6)
      /\ Brings(<<Write("fstab")>>, 7)
      /\ Brings(<<Write("hostname")>>, 8)
  <2>1. Filing(Run("pacstrap"), 6) /\ Due(6) \subseteq {Filed(Run("pacstrap"))}
    BY <1>4, FilingCommands, FiledNames DEF Elsewhere
  <2>2. Filing(Write("fstab"), 7) /\ Due(7) \subseteq {Filed(Write("fstab"))}
    BY <1>4, FilingCommands, FiledNames DEF Elsewhere
  <2>3. Filing(Write("hostname"), 8) /\ Due(8) \subseteq {Filed(Write("hostname"))}
    BY <1>4, FilingCommands, FiledNames DEF Elsewhere
  <2> QED BY <2>1, <2>2, <2>3, OneBrings
<1>6. /\ Brings(<<Write("locale")>>, 9)
      /\ Brings(<<TryWrite("timezone")>>, 10)
  <2>1. Filing(Write("locale"), 9) /\ Due(9) \subseteq {Filed(Write("locale"))}
    BY <1>4, FilingCommands, FiledNames DEF Elsewhere
  <2>2. Filing(TryWrite("timezone"), 10) /\ Due(10) \subseteq {Filed(TryWrite("timezone"))}
    BY <1>4, FilingCommands, FiledNames DEF Elsewhere
  <2> QED BY <2>1, <2>2, OneBrings
<1>7. /\ Brings(<<Write("network")>>, 11)
      /\ Brings(<<Chroot("accounts")>>, 12)
  <2>1. Filing(Write("network"), 11) /\ Due(11) \subseteq {Filed(Write("network"))}
    BY <1>4, FilingCommands, FiledNames DEF Elsewhere
  <2>2. Filing(Chroot("accounts"), 12) /\ Due(12) \subseteq {Filed(Chroot("accounts"))}
    <3>1. 12 > 6 OBVIOUS
    <3>2. Filing(Chroot("accounts"), 12) BY <3>1, FilingCommands DEF Elsewhere
    <3> QED BY <1>4, <3>2, FiledNames
  <2> QED BY <2>1, <2>2, OneBrings
<1>8. /\ Brings(<<Write("sudoers")>>, 13)
      /\ Brings(<<Write("limits")>>, 14)
      /\ Brings(<<Write("identity")>>, 15)
  <2>1. Filing(Write("sudoers"), 13) /\ Due(13) \subseteq {Filed(Write("sudoers"))}
    BY <1>4, FilingCommands, FiledNames DEF Elsewhere
  <2>2. Filing(Write("limits"), 14) /\ Due(14) \subseteq {Filed(Write("limits"))}
    BY <1>4, FilingCommands, FiledNames DEF Elsewhere
  <2>3. Filing(Write("identity"), 15) /\ Due(15) \subseteq {Filed(Write("identity"))}
    BY <1>4, FilingCommands, FiledNames DEF Elsewhere
  <2> QED BY <2>1, <2>2, <2>3, OneBrings
<1>9. /\ Brings(<<Chroot("initramfs")>>, 16)
      /\ Brings(<<Write("first-boot.json")>>, 18)
  <2>1. Filing(Chroot("initramfs"), 16) /\ Due(16) \subseteq {Filed(Chroot("initramfs"))}
    <3>1. 16 > 6 OBVIOUS
    <3>2. Filing(Chroot("initramfs"), 16) BY <3>1, FilingCommands DEF Elsewhere
    <3> QED BY <1>4, <3>2, FiledNames
  <2>2. /\ Filing(Write("first-boot.json"), 18)
        /\ Due(18) \subseteq {Filed(Write("first-boot.json"))}
    BY <1>4, FilingCommands, FiledNames DEF Elsewhere
  <2> QED BY <2>1, <2>2, OneBrings
<1>10. Brings(<<Chroot("services"), Chroot("firstboot enabled")>>, 17)
  <2> DEFINE a == Chroot("services")
             b == Chroot("firstboot enabled")
             q == <<a, b>>
  <2>0. 17 > 6 OBVIOUS
  <2>1. Filing(a, 17) /\ Filing(b, 17) BY <2>0, FilingCommands DEF Elsewhere
  <2>2. DOMAIN q = {1, 2} /\ q[1] = a /\ q[2] = b OBVIOUS
  <2> HIDE DEF a, b, q
  <2>3. Brings(q, 17) BY <1>4, <2>1, <2>2 DEF Brings
  <2> QED BY <2>3 DEF a, b, q
<1>11. /\ Brings(Q(6), 6) /\ Brings(Q(7), 7) /\ Brings(Q(8), 8) /\ Brings(Q(9), 9)
       /\ Brings(Q(10), 10) /\ Brings(Q(11), 11) /\ Brings(Q(12), 12)
  BY <1>2, <1>3, <1>5, <1>6, <1>7, Zenon
<1>12. /\ Brings(Q(13), 13) /\ Brings(Q(14), 14) /\ Brings(Q(15), 15) /\ Brings(Q(16), 16)
       /\ Brings(Q(17), 17) /\ Brings(Q(18), 18)
  BY <1>3, <1>8, <1>9, <1>10, Zenon
<1>13. n \in {6, 7, 8, 9, 10, 11, 12, 13, 14, 15, 16, 17, 18} OBVIOUS
<1>14. Brings(Q(n), n) BY <1>11, <1>12, <1>13
<1> QED BY <1>14 DEF Q

\* What holds of the machine goes on to hold when a step begins.
LEMMA StaysPut ==
  ASSUME UNCHANGED machine, session'.disk = session.disk, session'.encrypt = session.encrypt
  PROVE  /\ bare' = bare /\ mapper' = mapper /\ efi' = efi
         /\ content[Disk].parts => (content[Disk].parts)'
         /\ (session.encrypt => content[Disk].luks)
              => (session.encrypt => content[Disk].luks)'
         /\ Off => Off'
         /\ Shut => Shut'
         /\ Formatted => Formatted'
         /\ Made("ready") /\ Formatted => Base'
         /\ Base => Base'
         /\ Filled => Filled'
         /\ Kept => Kept'
         /\ Unentered => Unentered'
         /\ Entered => Entered'
         /\ mapper = Key => (mapper = Key)'
         /\ On("@", Esp, Disk) => On("@", Esp, Disk)'
         /\ Again(Esp, Disk) => Again(Esp, Disk)'
         /\ Held' = Held
<1>1. /\ efi' = efi /\ content' = content /\ mapper' = mapper /\ mnt' = mnt /\ bare' = bare
  BY DEF machine
<1>2. Disk' = Disk /\ Esp' = Esp /\ Key' = Key /\ Held' = Held
  BY <1>1 DEF Disk, Esp, Key, Held
<1>3. /\ (Off => Off') /\ (Shut => Shut')
      /\ content[Disk].parts => (content[Disk].parts)'
      /\ (session.encrypt => content[Disk].luks)
           => (session.encrypt => content[Disk].luks)'
  BY <1>1 DEF Off, Shut, Disk
<1>4. /\ Formatted => Formatted'
      /\ Rooted => Rooted'
      /\ Made("ready") /\ Formatted => Rooted'
  BY <1>1 DEF Formatted, Rooted, Made, Disk
<1>5. Made("ready") => Grubless /\ "packages" \notin Held
  BY DEF Made, Grubless, Held, Lying
<1>6. /\ Made("ready") /\ Formatted => Base'
      /\ Base => Base'
  <2>1. Grubless => Grubless' BY <1>2 DEF Grubless
  <2>2. content'[Disk'] = content[Disk] BY <1>1, <1>2
  <2> QED BY <1>2, <1>4, <1>5, <2>1, <2>2 DEF Base
<1>7. (Filled => Filled') /\ (Kept => Kept')
  <2>1. content'[Disk'] = content[Disk] BY <1>1, <1>2
  <2> QED BY <1>1, <1>2, <1>4, <1>6, <2>1 DEF Filled, Kept
<1>8. (Unentered => Unentered') /\ (Entered => Entered')
  BY <1>1, <1>2 DEF Unentered, Entered, Grubless, Disk
<1>9. (mapper = Key) => (mapper = Key)' BY <1>1, <1>2
<1>10. /\ On("@", Esp, Disk) => On("@", Esp, Disk)'
       /\ Again(Esp, Disk) => Again(Esp, Disk)'
  BY <1>1, <1>2 DEF On, Off, Again, Disk, Esp
<1> QED BY <1>1, <1>2, <1>3, <1>4, <1>6, <1>7, <1>8, <1>9, <1>10

\* A step of a real session begins.
Begun ==
  /\ InstallInv /\ RealInstall /\ session.queue = <<>>
  /\ UNCHANGED machine /\ session'.disk = session.disk /\ session'.encrypt = session.encrypt
  /\ session'.step = session.step + 1
  /\ session'.queue = CommandsOf(Program[session.step + 1], session)

LEMMA BegunFacts ==
  ASSUME Begun
  PROVE  /\ RealInstall /\ session.queue = <<>>
         /\ session.encrypt \in BOOLEAN /\ efi \in BOOLEAN
         /\ session'.encrypt = session.encrypt
         /\ UNCHANGED machine /\ session'.disk = session.disk
<1>1. InstallInv /\ session \in Session /\ efi \in BOOLEAN
  BY DEF Begun, InstallInv, InstallerTypeOK
<1> QED BY <1>1, SessionFields DEF Begun

LEMMA BegunQueue ==
  ASSUME Begun
  PROVE  /\ session.step = 0 => session'.queue = CommandsOf(Program[1], session)
         /\ session.step = 1 => session'.queue = CommandsOf(Program[2], session)
         /\ session.step = 2 => session'.queue = CommandsOf(Program[3], session)
         /\ session.step = 3 => session'.queue = CommandsOf(Program[4], session)
         /\ session.step = 4 => session'.queue = CommandsOf(Program[5], session)
         /\ session.step = 18 => session'.queue = CommandsOf(Program[19], session)
         /\ session.step = 19 => session'.queue = CommandsOf(Program[20], session)
         /\ session.step = 20 => session'.queue = CommandsOf(Program[21], session)
         /\ session.step = 21 => session'.queue = CommandsOf(Program[22], session)
         /\ session.step = 22 => session'.queue = CommandsOf(Program[23], session)
         /\ session.step = 23 => session'.queue = CommandsOf(Program[24], session)
<1>1. session'.queue = CommandsOf(Program[session.step + 1], session) BY DEF Begun
<1>2. ASSUME NEW k \in 0 .. 23, session.step = k
      PROVE  session'.queue = CommandsOf(Program[k + 1], session)
  BY <1>1, <1>2
<1>3. /\ 0 + 1 = 1 /\ 1 + 1 = 2 /\ 2 + 1 = 3 /\ 3 + 1 = 4 /\ 4 + 1 = 5 /\ 18 + 1 = 19
      /\ 19 + 1 = 20 /\ 20 + 1 = 21 /\ 21 + 1 = 22 /\ 22 + 1 = 23 /\ 23 + 1 = 24
  OBVIOUS
<1> QED BY <1>2, <1>3

LEMMA StoriesOnTheDisk ==
  ASSUME Begun
  PROVE  /\ session.step = 0 /\ Story0 => Story1'
         /\ session.step = 1 /\ Story1 => Story2'
         /\ session.step = 2 /\ Story2 => Story3'
         /\ session.step = 3 /\ Story3 => Story4'
         /\ session.step = 4 /\ Story4 => Story5'
<1>1. ASSUME session.step = 0, Story0 PROVE Story1'
  <2>1. session'.queue = <<Run("zap"), Run("new partitions")>>
    BY <1>1, BegunFacts, BegunQueue, DiskQueues
  <2>2. Queue(<<Run("zap"), Run("new partitions")>>)' BY <2>1 DEF Queue
  <2>3. Shut' /\ bare' = {} BY <1>1, BegunFacts, StaysPut DEF Story0
  <2> QED BY <2>2, <2>3 DEF Story1
<1>2. ASSUME session.step = 1, Story1 PROVE Story2'
  <2>1. Shut /\ bare = {} /\ content[Disk].parts
    BY <1>2, BegunFacts, QueueGoes DEF Story1
  <2>2. Shut' /\ bare' = {} /\ (content[Disk].parts)' /\ efi' = efi
    BY <2>1, BegunFacts, StaysPut
  <2>3. CASE efi
    <3>1. session'.queue = <<Run("mkfs efi"), Run("mkfs boot")>>
      BY <1>2, <2>3, BegunFacts, BegunQueue, DiskQueues
    <3>2. Queue(<<Run("mkfs efi"), Run("mkfs boot")>>)' BY <3>1 DEF Queue
    <3> QED BY <2>2, <2>3, <3>2 DEF Story2
  <2>4. CASE ~efi
    <3>1. session'.queue = <<Run("mkfs boot")>>
      BY <1>2, <2>4, BegunFacts, BegunQueue, DiskQueues
    <3>2. Queue(<<Run("mkfs boot")>>)' BY <3>1 DEF Queue
    <3> QED BY <2>2, <2>4, <3>2 DEF Story2
  <2> QED BY <2>3, <2>4
<1>3. ASSUME session.step = 2, Story2 PROVE Story3'
  <2>1. Shut /\ bare = {} /\ Formatted BY <1>3, BegunFacts, QueueGoes DEF Story2
  <2>2. Shut' /\ bare' = {} /\ Formatted' BY <2>1, BegunFacts, StaysPut
  <2>3. Off' /\ mapper' = NoDisk BY <2>2 DEF Shut
  <2>4. CASE session.encrypt
    <3>1. session'.queue = <<Run("luksFormat"), Run("luksOpen")>>
      BY <1>3, <2>4, BegunFacts, BegunQueue, DiskQueues
    <3>2. Queue(<<Run("luksFormat"), Run("luksOpen")>>)' /\ session'.encrypt
      BY <2>4, <3>1, BegunFacts DEF Queue
    <3> QED BY <2>2, <2>3, <3>2 DEF Story3
  <2>5. CASE ~session.encrypt
    <3>1. session'.queue = <<>> BY <1>3, <2>5, BegunFacts, BegunQueue, DiskQueues
    <3>2. Queue(<<>>)' /\ ~session'.encrypt BY <2>5, <3>1, BegunFacts DEF Queue
    <3>3. (mapper = Key)' BY <2>3, <3>2 DEF Key
    <3> QED BY <2>2, <2>3, <3>2, <3>3 DEF Story3
  <2> QED BY <2>4, <2>5
<1>4. ASSUME session.step = 3, Story3 PROVE Story4'
  <2>1. /\ Off /\ bare = {} /\ Formatted /\ mapper = Key
        /\ session.encrypt => content[Disk].luks
    BY <1>4, BegunFacts, QueueGoes DEF Story3
  <2>2. /\ Off' /\ bare' = {} /\ Formatted' /\ (mapper = Key)'
        /\ (session.encrypt => content[Disk].luks)'
    BY <2>1, BegunFacts, StaysPut
  <2>3. session'.queue =
          <<Run("mkfs root"), Run("mount top"), Run("create subvolumes"), Run("umount")>>
    BY <1>4, BegunFacts, BegunQueue, DiskQueues
  <2>4. Queue(<<Run("mkfs root"), Run("mount top"), Run("create subvolumes"),
                Run("umount")>>)'
    BY <2>3 DEF Queue
  <2> QED BY <2>2, <2>4 DEF Story4
<1>5. ASSUME session.step = 4, Story4 PROVE Story5'
  <2>1. Off /\ bare = {} /\ Formatted /\ mapper = Key /\ Made("ready")
    BY <1>5, BegunFacts, QueueGoes DEF Story4
  <2>2. Off' /\ bare' = {} /\ Base' /\ (mapper = Key)' /\ efi' = efi
    BY <2>1, BegunFacts, StaysPut
  <2>3. CASE efi
    <3>1. session'.queue =
            <<Run("mount root"), Run("mount subvolumes"), Write("efi"),
              Run("mount efi"), Write("boot"), Run("mount boot")>>
      BY <1>5, <2>3, BegunFacts, BegunQueue, MountQueue
    <3>2. Queue(<<Run("mount root"), Run("mount subvolumes"), Write("efi"),
                  Run("mount efi"), Write("boot"), Run("mount boot")>>)'
      BY <3>1 DEF Queue
    <3> QED BY <2>2, <2>3, <3>2 DEF Story5
  <2>4. CASE ~efi
    <3>1. session'.queue =
            <<Run("mount root"), Run("mount subvolumes"), Write("boot"),
              Run("mount boot")>>
      BY <1>5, <2>4, BegunFacts, BegunQueue, MountQueue
    <3>2. Queue(<<Run("mount root"), Run("mount subvolumes"), Write("boot"),
                  Run("mount boot")>>)'
      BY <3>1 DEF Queue
    <3> QED BY <2>2, <2>4, <3>2 DEF Story5
  <2> QED BY <2>3, <2>4
<1> QED BY <1>1, <1>2, <1>3, <1>4, <1>5

LEMMA FilesBegin ==
  ASSUME Begun, bare = {}, Base, mapper = Key, On("@", Esp, Disk), efi => "efi" \in Held,
         session.step \in 5 .. 17,
         \A n \in 6 .. 18 : n <= session.step => Due(n) \subseteq Held
  PROVE  StoryFiles'
<1> DEFINE q == CommandsOf(Program[session.step + 1], session)
           n == session.step + 1
<1>1. /\ n \in 6 .. 18 /\ session'.step = n /\ session'.queue = q
      /\ \A k \in 6 .. 18 : k < n => k <= session.step
  BY DEF Begun
<1>2. Brings(q, n) BY <1>1, BegunFacts, FileQueues DEF RealInstall
<1>3. /\ bare' = {} /\ Base' /\ (mapper = Key)' /\ On("@", Esp, Disk)' /\ Held' = Held
      /\ efi' = efi
  BY BegunFacts, StaysPut
<1> HIDE DEF q, n
<1>4. \A k \in 6 .. 18 : k < session'.step => Due(k) \subseteq Held'
  BY <1>1, <1>3
<1>5. Due(session'.step) \subseteq
        Held' \cup {Filed(session'.queue[i]) : i \in DOMAIN session'.queue}
  BY <1>1, <1>2 DEF Brings
<1>6. \A i \in DOMAIN session'.queue : Filing(session'.queue[i], session'.step)
  BY <1>1, <1>2 DEF Brings
<1> QED BY <1>3, <1>4, <1>5, <1>6 DEF StoryFiles

LEMMA FilesDue ==
  ASSUME StoryFiles, session.queue = <<>>, session.step \in 6 .. 18
  PROVE  \A n \in 6 .. 18 : n <= session.step => Due(n) \subseteq Held
<1>1. Due(session.step) \subseteq Held
  <2> DEFINE q == session.queue
  <2>1. DOMAIN q = {} OBVIOUS
  <2> HIDE DEF q
  <2>2. Due(session.step) \subseteq Held \cup {Filed(q[i]) : i \in DOMAIN q}
    BY DEF StoryFiles, q
  <2> QED BY <2>1, <2>2
<1>2. \A n \in 6 .. 18 : n < session.step => Due(n) \subseteq Held BY DEF StoryFiles
<1> TAKE n \in 6 .. 18
<1>3. CASE n = session.step BY <1>1, <1>3
<1>4. CASE n # session.step BY <1>2, <1>4
<1> QED BY <1>3, <1>4

LEMMA DueTogether ==
  ASSUME NEW held, \A n \in 6 .. 18 : Due(n) \subseteq held PROVE DueFiles \subseteq held
<1>1. /\ 6 \in 6 .. 18 /\ 7 \in 6 .. 18 /\ 8 \in 6 .. 18 /\ 9 \in 6 .. 18
      /\ 12 \in 6 .. 18 /\ 13 \in 6 .. 18 /\ 14 \in 6 .. 18 /\ 15 \in 6 .. 18
      /\ 16 \in 6 .. 18 /\ 18 \in 6 .. 18
  OBVIOUS
<1>2. /\ Due(6) \subseteq held /\ Due(7) \subseteq held /\ Due(8) \subseteq held
      /\ Due(9) \subseteq held /\ Due(12) \subseteq held /\ Due(13) \subseteq held
      /\ Due(14) \subseteq held /\ Due(15) \subseteq held /\ Due(16) \subseteq held
      /\ Due(18) \subseteq held
  BY <1>1
<1>3. /\ Due(6) = {"packages"} /\ Due(7) = {"fstab"} /\ Due(8) = {"hostname"}
      /\ Due(9) = {"locale"} /\ Due(12) = {"accounts"} /\ Due(13) = {"sudoers"}
      /\ Due(14) = {"limits"} /\ Due(15) = {"identity"} /\ Due(16) = {"initramfs"}
      /\ Due(18) = {"first-boot.json"}
  BY DEF Due
<1> QED BY <1>2, <1>3 DEF DueFiles, ConfigFiles

LEMMA StoriesOfFiles ==
  ASSUME Begun
  PROVE  /\ session.step = 5 /\ Story5 => StoryFiles'
         /\ session.step \in 6 .. 17 /\ StoryFiles => StoryFiles'
         /\ session.step = 18 /\ StoryFiles => Story19'
<1>1. ASSUME session.step = 5, Story5 PROVE StoryFiles'
  <2>1. bare = {} /\ Base /\ mapper = Key /\ On("@", Esp, Disk) /\ (efi => "efi" \in Held)
    BY <1>1, BegunFacts, QueueGoes DEF Story5
  <2>2. \A n \in 6 .. 18 : n <= session.step => Due(n) \subseteq Held BY <1>1
  <2> QED BY <1>1, <2>1, <2>2, FilesBegin
<1>2. ASSUME session.step \in 6 .. 17, StoryFiles PROVE StoryFiles'
  <2>1. bare = {} /\ Base /\ mapper = Key /\ On("@", Esp, Disk) /\ (efi => "efi" \in Held)
    BY <1>2 DEF StoryFiles
  <2>2. session.step \in 6 .. 18 /\ session.step \in 5 .. 17 BY <1>2
  <2>3. \A n \in 6 .. 18 : n <= session.step => Due(n) \subseteq Held
    BY <1>2, <2>2, BegunFacts, FilesDue
  <2> QED BY <2>1, <2>2, <2>3, FilesBegin
<1>3. ASSUME session.step = 18, StoryFiles PROVE Story19'
  <2>1. bare = {} /\ Base /\ mapper = Key /\ On("@", Esp, Disk) /\ (efi => "efi" \in Held)
    BY <1>3 DEF StoryFiles
  <2>2. \A n \in 6 .. 18 : n <= session.step => Due(n) \subseteq Held
    BY <1>3, BegunFacts, FilesDue
  <2>3. \A n \in 6 .. 18 : Due(n) \subseteq Held BY <1>3, <2>2
  <2>4. Filled BY <2>1, <2>3, DueTogether DEF Filled
  <2>5. bare' = {} /\ Filled' /\ (mapper = Key)' /\ On("@", Esp, Disk)'
    BY <2>1, <2>4, BegunFacts, StaysPut
  <2>6. CASE session.encrypt
    <3>1. session'.queue = <<Try("umount below"), Try("umount"), Try("luksClose")>>
      BY <1>3, <2>6, BegunFacts, BegunQueue, UnmountQueue
    <3>2. /\ Queue(<<Try("umount below"), Try("umount"), Try("luksClose")>>)'
          /\ session'.encrypt
      BY <2>6, <3>1, BegunFacts DEF Queue
    <3> QED BY <2>5, <3>2 DEF Story19
  <2>7. CASE ~session.encrypt
    <3>1. session'.queue = <<Try("umount below"), Try("umount")>>
      BY <1>3, <2>7, BegunFacts, BegunQueue, UnmountQueue
    <3>2. Queue(<<Try("umount below"), Try("umount")>>)' /\ ~session'.encrypt
      BY <2>7, <3>1, BegunFacts DEF Queue
    <3> QED BY <2>5, <3>2 DEF Story19
  <2> QED BY <2>6, <2>7
<1> QED BY <1>1, <1>2, <1>3

LEMMA StoriesOfTheBoot ==
  ASSUME Begun
  PROVE  /\ session.step = 19 /\ Story19 => Story20'
         /\ session.step = 20 /\ Story20 => Story21'
         /\ session.step = 21 /\ Story21 => Story22'
         /\ session.step = 22 /\ Story22 => Story23'
         /\ session.step = 23 /\ Story23 => Story24'
<1>1. ASSUME session.step = 19, Story19 PROVE Story20'
  <2>1. bare = {} /\ Filled /\ Shut BY <1>1, BegunFacts, QueueGoes DEF Story19
  <2>2. bare' = {} /\ Filled' /\ Shut' /\ efi' = efi BY <2>1, BegunFacts, StaysPut
  <2>3. Off' /\ mapper' = NoDisk BY <2>2 DEF Shut
  <2>4. ~IsMounted BY <2>1, OffFacts DEF Shut
  <2>5. CASE efi
    <3>1. session'.queue = <<Try("mount root"), Try("mount efi"), Try("mount boot")>>
      BY <1>1, <2>4, <2>5, BegunFacts, BegunQueue, RemountQueue
    <3>2. Queue(<<Try("mount root"), Try("mount efi"), Try("mount boot")>>)'
      BY <3>1 DEF Queue
    <3> QED BY <2>2, <2>3, <2>5, <3>2 DEF Story20
  <2>6. CASE ~efi
    <3>1. session'.queue = <<Try("mount root"), Try("mount boot")>>
      BY <1>1, <2>4, <2>6, BegunFacts, BegunQueue, RemountQueue
    <3>2. Queue(<<Try("mount root"), Try("mount boot")>>)' BY <3>1 DEF Queue
    <3> QED BY <2>2, <2>3, <2>6, <3>2 DEF Story20
  <2> QED BY <2>5, <2>6
<1>2. ASSUME session.step = 20, Story20 PROVE Story21'
  <2>1. bare = {} /\ Filled /\ mapper = NoDisk /\ Again(Esp, Disk)
    BY <1>2, BegunFacts, QueueGoes DEF Story20
  <2>2. Kept BY <2>1 DEF Kept, Filled, Base, DueFiles
  <2>3. Unentered BY <2>1 DEF Unentered, Filled, Base, Formatted
  <2>4. Kept' /\ mapper' = NoDisk /\ Again(Esp, Disk)' /\ Unentered' /\ efi' = efi
    BY <2>1, <2>2, <2>3, BegunFacts, StaysPut
  <2>5. CASE efi
    <3>1. session'.queue = <<Chroot("loader"), Write("efi"), TryWrite("entries")>>
      BY <1>2, <2>5, BegunFacts, BegunQueue, BootQueues
    <3>2. Queue(<<Chroot("loader"), Write("efi"), TryWrite("entries")>>)'
      BY <3>1 DEF Queue
    <3> QED BY <2>4, <2>5, <3>2 DEF Story21
  <2>6. CASE ~efi
    <3>1. session'.queue = <<Chroot("grub"), Write("grub defaults"), Chroot("grub.cfg")>>
      BY <1>2, <2>6, BegunFacts, BegunQueue, BootQueues
    <3>2. Queue(<<Chroot("grub"), Write("grub defaults"), Chroot("grub.cfg")>>)'
      BY <3>1 DEF Queue
    <3> QED BY <2>4, <2>6, <3>2 DEF Story21
  <2> QED BY <2>5, <2>6
<1>3. ASSUME session.step = 21, Story21 PROVE Story22'
  <2>1. Kept /\ mapper = NoDisk /\ Again(Esp, Disk) /\ Entered
    BY <1>3, BegunFacts, QueueGoes DEF Story21
  <2>2. /\ Kept' /\ mapper' = NoDisk /\ Entered' /\ (Off => Off')
        /\ On("@", Esp, Disk) => On("@", Esp, Disk)'
    BY <2>1, BegunFacts, StaysPut
  <2>3. CASE session.encrypt
    <3>1. Off BY <2>1, <2>3 DEF Again
    <3>2. ~IsMounted BY <3>1, OffFacts
    <3>3. session'.queue = <<>> BY <1>3, <3>2, BegunFacts, BegunQueue, BootQueues
    <3>4. Queue(<<>>)' BY <3>3 DEF Queue
    <3> QED BY <2>2, <3>1, <3>4 DEF Story22
  <2>4. CASE ~session.encrypt
    <3>1. On("@", Esp, Disk) BY <2>1, <2>4 DEF Again
    <3>2. IsMounted BY <3>1, OnFacts
    <3>3. session'.queue = <<Try("umount")>>
      BY <1>3, <2>4, <3>2, BegunFacts, BegunQueue, BootQueues
    <3>4. Queue(<<Try("umount")>>)' /\ ~session'.encrypt
      BY <2>4, <3>3, BegunFacts DEF Queue
    <3> QED BY <2>2, <3>1, <3>4 DEF Story22
  <2> QED BY <2>3, <2>4
<1>4. ASSUME session.step = 22, Story22 PROVE Story23'
  <2>1. Kept /\ Entered /\ Off /\ mapper = NoDisk
    BY <1>4, BegunFacts, QueueGoes DEF Story22
  <2>2. Shut BY <2>1 DEF Shut
  <2>3. Kept' /\ Entered' /\ Shut' BY <2>1, <2>2, BegunFacts, StaysPut
  <2>4. session'.queue = <<Run("health check")>> BY <1>4, BegunFacts, BegunQueue, BootQueues
  <2>5. Queue(<<Run("health check")>>)' BY <2>4 DEF Queue
  <2> QED BY <2>3, <2>5 DEF Story23, StoryEnd
<1>5. ASSUME session.step = 23, Story23 PROVE Story24'
  <2>1. Kept /\ Entered /\ Shut BY <1>5 DEF Story23, StoryEnd
  <2>2. Kept' /\ Entered' /\ Shut' BY <2>1, BegunFacts, StaysPut
  <2>3. session'.queue = <<TryWrite("firstboot service")>>
    BY <1>5, BegunFacts, BegunQueue, BootQueues
  <2>4. Queue(<<TryWrite("firstboot service")>>)' BY <2>3 DEF Queue
  <2> QED BY <2>2, <2>4 DEF Story24, StoryEnd
<1> QED BY <1>1, <1>2, <1>3, <1>4, <1>5

----------------------------------------------------------------------------
(* The story of a real session *)

LEMMA StoryThere ==
  /\ session'.step \in 6 .. 18 /\ StoryFiles' => Story'
  /\ session'.step = 1 /\ Story1' => Story'
  /\ session'.step = 2 /\ Story2' => Story'
  /\ session'.step = 3 /\ Story3' => Story'
  /\ session'.step = 4 /\ Story4' => Story'
  /\ session'.step = 5 /\ Story5' => Story'
  /\ session'.step = 19 /\ Story19' => Story'
  /\ session'.step = 20 /\ Story20' => Story'
  /\ session'.step = 21 /\ Story21' => Story'
  /\ session'.step = 22 /\ Story22' => Story'
  /\ session'.step = 23 /\ Story23' => Story'
  /\ session'.step = 24 /\ Story24' => Story'
<1>1. ASSUME session'.step = 1, Story1' PROVE Story' BY <1>1 DEF Story
<1>2. ASSUME session'.step = 2, Story2' PROVE Story' BY <1>2 DEF Story
<1>3. ASSUME session'.step = 3, Story3' PROVE Story' BY <1>3 DEF Story
<1>4. ASSUME session'.step = 4, Story4' PROVE Story' BY <1>4 DEF Story
<1>5. ASSUME session'.step = 5, Story5' PROVE Story' BY <1>5 DEF Story
<1>19. ASSUME session'.step = 19, Story19' PROVE Story' BY <1>19 DEF Story
<1>20. ASSUME session'.step = 20, Story20' PROVE Story' BY <1>20 DEF Story
<1>21. ASSUME session'.step = 21, Story21' PROVE Story' BY <1>21 DEF Story
<1>22. ASSUME session'.step = 22, Story22' PROVE Story' BY <1>22 DEF Story
<1>23. ASSUME session'.step = 23, Story23' PROVE Story' BY <1>23 DEF Story
<1>24. ASSUME session'.step = 24, Story24' PROVE Story' BY <1>24 DEF Story
<1>6. ASSUME session'.step \in 6 .. 18, StoryFiles' PROVE Story' BY <1>6 DEF Story
<1> QED BY <1>1, <1>2, <1>3, <1>4, <1>5, <1>6, <1>19, <1>20, <1>21, <1>22, <1>23, <1>24

LEMMA WhichStep ==
  ASSUME NEW n \in Nat, n <= 24
  PROVE  n \in {0, 1, 2, 3, 4, 5} \/ n \in 6 .. 18 \/ n \in {19, 20, 21, 22, 23, 24}
OBVIOUS

\* A command of the story does its work or may be left out.
LEMMA StoryGoes ==
  ASSUME Busy, Story, Head(session.queue).do # "health check"
  PROVE  /\ Possible(Head(session.queue)) \/ ~Head(session.queue).checked
         /\ Went => Story'
<1>1. InstallInv /\ session \in Session /\ session.step \in Nat /\ session.step <= 24
  BY BusyFacts, SessionFields DEF Busy, InstallInv, Placed
<1>2. session.queue # <<>> BY BusyFacts
<1>3. Went => session'.step = session.step BY DEF Went
<1>4. CASE session.step = 0
  <2>1. Queue(<<>>) BY <1>4 DEF Story, Story0
  <2> QED BY <1>2, <2>1 DEF Queue
<1>5. CASE session.step = 1
  <2>1. Story1 BY <1>5 DEF Story
  <2>2. /\ Possible(Head(session.queue)) \/ ~Head(session.queue).checked
        /\ Went => Story1'
    BY <2>1, PartitionStory
  <2>3. ASSUME Went PROVE Story'
    <3>1. session'.step = 1 BY <1>3, <1>5, <2>3
    <3>2. Story1' BY <2>2, <2>3
    <3> QED BY <3>1, <3>2, StoryThere
  <2> QED BY <2>2, <2>3
<1>6. CASE session.step = 2
  <2>1. Story2 BY <1>6 DEF Story
  <2>2. /\ Possible(Head(session.queue)) \/ ~Head(session.queue).checked
        /\ Went => Story2'
    BY <2>1, FormatStory
  <2>3. ASSUME Went PROVE Story'
    <3>1. session'.step = 2 BY <1>3, <1>6, <2>3
    <3>2. Story2' BY <2>2, <2>3
    <3> QED BY <3>1, <3>2, StoryThere
  <2> QED BY <2>2, <2>3
<1>7. CASE session.step = 3
  <2>1. Story3 BY <1>7 DEF Story
  <2>2. /\ Possible(Head(session.queue)) \/ ~Head(session.queue).checked
        /\ Went => Story3'
    BY <2>1, LuksStory
  <2>3. ASSUME Went PROVE Story'
    <3>1. session'.step = 3 BY <1>3, <1>7, <2>3
    <3>2. Story3' BY <2>2, <2>3
    <3> QED BY <3>1, <3>2, StoryThere
  <2> QED BY <2>2, <2>3
<1>8. CASE session.step = 4
  <2>1. Story4 BY <1>8 DEF Story
  <2>2. /\ Possible(Head(session.queue)) \/ ~Head(session.queue).checked
        /\ Went => Story4'
    BY <2>1, BtrfsStory
  <2>3. ASSUME Went PROVE Story'
    <3>1. session'.step = 4 BY <1>3, <1>8, <2>3
    <3>2. Story4' BY <2>2, <2>3
    <3> QED BY <3>1, <3>2, StoryThere
  <2> QED BY <2>2, <2>3
<1>9. CASE session.step = 5
  <2>1. Story5 BY <1>9 DEF Story
  <2>2. /\ Possible(Head(session.queue)) \/ ~Head(session.queue).checked
        /\ Went => Story5'
    BY <2>1, MountStory
  <2>3. ASSUME Went PROVE Story'
    <3>1. session'.step = 5 BY <1>3, <1>9, <2>3
    <3>2. Story5' BY <2>2, <2>3
    <3> QED BY <3>1, <3>2, StoryThere
  <2> QED BY <2>2, <2>3
<1>10. CASE session.step \in 6 .. 18
  <2>1. StoryFiles BY <1>10 DEF Story
  <2>2. /\ Possible(Head(session.queue)) \/ ~Head(session.queue).checked
        /\ Went => StoryFiles'
    BY <1>10, <2>1, FilesStory
  <2>3. ASSUME Went PROVE Story'
    <3>1. session'.step \in 6 .. 18 BY <1>3, <1>10, <2>3
    <3>2. StoryFiles' BY <2>2, <2>3
    <3> QED BY <3>1, <3>2, StoryThere
  <2> QED BY <2>2, <2>3
<1>11. CASE session.step = 19
  <2>1. Story19 BY <1>11 DEF Story
  <2>2. /\ Possible(Head(session.queue)) \/ ~Head(session.queue).checked
        /\ Went => Story19'
    BY <2>1, UnmountStory
  <2>3. ASSUME Went PROVE Story'
    <3>1. session'.step = 19 BY <1>3, <1>11, <2>3
    <3>2. Story19' BY <2>2, <2>3
    <3> QED BY <3>1, <3>2, StoryThere
  <2> QED BY <2>2, <2>3
<1>12. CASE session.step = 20
  <2>1. Story20 BY <1>12 DEF Story
  <2>2. /\ Possible(Head(session.queue)) \/ ~Head(session.queue).checked
        /\ Went => Story20'
    BY <2>1, RemountStory, RemountEncrypted
  <2>3. ASSUME Went PROVE Story'
    <3>1. session'.step = 20 BY <1>3, <1>12, <2>3
    <3>2. Story20' BY <2>2, <2>3
    <3> QED BY <3>1, <3>2, StoryThere
  <2> QED BY <2>2, <2>3
<1>13. CASE session.step = 21
  <2>1. Story21 BY <1>13 DEF Story
  <2>2. /\ Possible(Head(session.queue)) \/ ~Head(session.queue).checked
        /\ Went => Story21'
    BY <2>1, EntryStory
  <2>3. ASSUME Went PROVE Story'
    <3>1. session'.step = 21 BY <1>3, <1>13, <2>3
    <3>2. Story21' BY <2>2, <2>3
    <3> QED BY <3>1, <3>2, StoryThere
  <2> QED BY <2>2, <2>3
<1>14. CASE session.step = 22
  <2>1. Story22 BY <1>14 DEF Story
  <2>2. /\ Possible(Head(session.queue)) \/ ~Head(session.queue).checked
        /\ Went => Story22'
    BY <2>1, ReleaseStory
  <2>3. ASSUME Went PROVE Story'
    <3>1. session'.step = 22 BY <1>3, <1>14, <2>3
    <3>2. Story22' BY <2>2, <2>3
    <3> QED BY <3>1, <3>2, StoryThere
  <2> QED BY <2>2, <2>3
<1>15. CASE session.step = 23
  <2>1. Queue(<<Run("health check")>>) BY <1>2, <1>15, QueueGoes DEF Story, Story23
  <2>2. Head(session.queue) = Run("health check") BY <2>1, QueueGoes
  <2> QED BY <2>2, CommandFields
<1>16. CASE session.step = 24
  <2>1. Story24 BY <1>16 DEF Story
  <2>2. /\ Possible(Head(session.queue)) \/ ~Head(session.queue).checked
        /\ Went => Story24'
    BY <2>1, FirstBootStory
  <2>3. ASSUME Went PROVE Story'
    <3>1. session'.step = 24 BY <1>3, <1>16, <2>3
    <3>2. Story24' BY <2>2, <2>3
    <3> QED BY <3>1, <3>2, StoryThere
  <2> QED BY <2>2, <2>3
<1>17. \/ session.step \in {0, 1, 2, 3, 4, 5} \/ session.step \in 6 .. 18
       \/ session.step \in {19, 20, 21, 22, 23, 24}
  BY <1>1, WhichStep
<1> QED BY <1>4, <1>5, <1>6, <1>7, <1>8, <1>9, <1>10, <1>11, <1>12, <1>13, <1>14, <1>15,
           <1>16, <1>17

\* The health check has a step of its own.
LEMMA HealthOfItsOwn ==
  ASSUME Busy, Story, Head(session.queue).do = "health check"
  PROVE  session.step = 23 /\ Story23 /\ Tail(session.queue) = <<>>
<1> DEFINE c == Head(session.queue)
<1>1. InstallInv /\ session \in Session /\ session.step \in Nat /\ session.step <= 24
  BY BusyFacts, SessionFields DEF Busy, InstallInv, Placed
<1>2. session.queue # <<>> BY BusyFacts
<1>3. session.step # 0
  <2>1. ASSUME session.step = 0 PROVE FALSE
    <3>1. Queue(<<>>) BY <2>1 DEF Story, Story0
    <3> QED BY <1>2, <3>1 DEF Queue
  <2> QED BY <2>1
<1>4. ASSUME session.step = 1 PROVE FALSE
  <2>1. c = Run("zap") \/ c = Run("new partitions")
    BY <1>2, <1>4, QueueGoes DEF Story, Story1
  <2> QED BY <2>1, CommandFields
<1>5. ASSUME session.step = 2 PROVE FALSE
  <2>1. c = Run("mkfs efi") \/ c = Run("mkfs boot")
    BY <1>2, <1>5, QueueGoes DEF Story, Story2
  <2> QED BY <2>1, CommandFields
<1>6. ASSUME session.step = 3 PROVE FALSE
  <2>1. c = Run("luksFormat") \/ c = Run("luksOpen")
    BY <1>2, <1>6, QueueGoes DEF Story, Story3
  <2> QED BY <2>1, CommandFields
<1>7. ASSUME session.step = 4 PROVE FALSE
  <2>1. \/ c = Run("mkfs root") \/ c = Run("mount top") \/ c = Run("create subvolumes")
        \/ c = Run("umount")
    BY <1>2, <1>7, QueueGoes DEF Story, Story4
  <2> QED BY <2>1, CommandFields
<1>8. ASSUME session.step = 5 PROVE FALSE
  <2>1. Story5 BY <1>8 DEF Story
  <2>2. \/ c = Run("mount root") \/ c = Run("mount subvolumes") \/ c = Write("efi")
        \/ c = Run("mount efi") \/ c = Write("boot") \/ c = Run("mount boot")
    BY <1>2, <2>1, QueueGoes DEF Story5
  <2> QED BY <2>2, CommandFields
<1>9. ASSUME session.step \in 6 .. 18 PROVE FALSE
  <2>1. session.queue \in Seq(Commands) BY <1>1, SessionFields
  <2>2. 1 \in DOMAIN session.queue /\ session.queue[1] = c BY <1>2, <2>1, TailFacts
  <2>3. StoryFiles BY <1>9 DEF Story
  <2>4. Filing(c, session.step) BY <2>2, <2>3 DEF StoryFiles
  <2> QED BY <2>4 DEF Filing
<1>10. ASSUME session.step = 19 PROVE FALSE
  <2>1. c = Try("umount below") \/ c = Try("umount") \/ c = Try("luksClose")
    BY <1>2, <1>10, QueueGoes DEF Story, Story19
  <2> QED BY <2>1, CommandFields
<1>11. ASSUME session.step = 20 PROVE FALSE
  <2>1. c = Try("mount root") \/ c = Try("mount efi") \/ c = Try("mount boot")
    BY <1>2, <1>11, QueueGoes DEF Story, Story20
  <2> QED BY <2>1, CommandFields
<1>12. ASSUME session.step = 21 PROVE FALSE
  <2>1. \/ c = Chroot("loader") \/ c = Write("efi") \/ c = TryWrite("entries")
        \/ c = Chroot("grub") \/ c = Write("grub defaults") \/ c = Chroot("grub.cfg")
    BY <1>2, <1>12, QueueGoes DEF Story, Story21
  <2> QED BY <2>1, CommandFields
<1>13. ASSUME session.step = 22 PROVE FALSE
  <2>1. c = Try("umount") BY <1>2, <1>13, QueueGoes DEF Story, Story22
  <2> QED BY <2>1, CommandFields
<1>14. ASSUME session.step = 24 PROVE FALSE
  <2>1. c = TryWrite("firstboot service")
    BY <1>2, <1>14, QueueGoes DEF Story, Story24
  <2> QED BY <2>1, CommandFields
<1>15. \/ session.step \in {0, 1, 2, 3, 4, 5} \/ session.step \in 6 .. 18
       \/ session.step \in {19, 20, 21, 22, 23, 24}
  BY <1>1, WhichStep
<1>16. session.step = 23
  BY <1>3, <1>4, <1>5, <1>6, <1>7, <1>8, <1>9, <1>10, <1>11, <1>12, <1>13, <1>14, <1>15
<1>17. Story23 BY <1>16 DEF Story
<1>18. Queue(<<Run("health check")>>) BY <1>2, <1>17, QueueGoes DEF Story23
<1>19. Tail(session.queue) = <<>>
  <2> DEFINE a == Run("health check")
  <2>1. session.queue = <<a>> BY <1>18 DEF Queue
  <2>2. Tail(<<a>>) = <<>> BY FirstOfFew
  <2> HIDE DEF a
  <2> QED BY <2>1, <2>2, Zenon
<1> QED BY <1>16, <1>17, <1>19

LEMMA StoryBegins ==
  ASSUME Begun, Story, session.step < 24 PROVE Story'
<1>1. session \in Session /\ session.step \in Nat
  BY SessionFields DEF Begun, InstallInv, InstallerTypeOK
<1>2. session'.step = session.step + 1 BY DEF Begun
<1>3. CASE session.step = 0
  <2>1. Story1' BY <1>3, StoriesOnTheDisk DEF Story
  <2>2. session'.step = 1 BY <1>2, <1>3
  <2> QED BY <2>1, <2>2 DEF Story
<1>4. CASE session.step = 1
  <2>1. Story2' BY <1>4, StoriesOnTheDisk DEF Story
  <2>2. session'.step = 2 BY <1>2, <1>4
  <2> QED BY <2>1, <2>2 DEF Story
<1>5. CASE session.step = 2
  <2>1. Story3' BY <1>5, StoriesOnTheDisk DEF Story
  <2>2. session'.step = 3 BY <1>2, <1>5
  <2> QED BY <2>1, <2>2 DEF Story
<1>6. CASE session.step = 3
  <2>1. Story4' BY <1>6, StoriesOnTheDisk DEF Story
  <2>2. session'.step = 4 BY <1>2, <1>6
  <2> QED BY <2>1, <2>2 DEF Story
<1>7. CASE session.step = 4
  <2>1. Story5' BY <1>7, StoriesOnTheDisk DEF Story
  <2>2. session'.step = 5 BY <1>2, <1>7
  <2> QED BY <2>1, <2>2 DEF Story
<1>8. CASE session.step \in 5 .. 17
  <2>1. session.step = 5 \/ session.step \in 6 .. 17 BY <1>8
  <2>2. session.step \in 6 .. 17 => session.step \in 6 .. 18 OBVIOUS
  <2>3. StoryFiles' BY <2>1, <2>2, StoriesOfFiles DEF Story
  <2>4. session'.step \in 6 .. 18 BY <1>2, <1>8
  <2> QED BY <2>3, <2>4 DEF Story
<1>9. CASE session.step = 18
  <2>1. Story19' BY <1>9, StoriesOfFiles DEF Story
  <2>2. session'.step = 19 BY <1>2, <1>9
  <2> QED BY <2>1, <2>2 DEF Story
<1>10. CASE session.step = 19
  <2>1. Story20' BY <1>10, StoriesOfTheBoot DEF Story
  <2>2. session'.step = 20 BY <1>2, <1>10
  <2> QED BY <2>1, <2>2 DEF Story
<1>11. CASE session.step = 20
  <2>1. Story21' BY <1>11, StoriesOfTheBoot DEF Story
  <2>2. session'.step = 21 BY <1>2, <1>11
  <2> QED BY <2>1, <2>2 DEF Story
<1>12. CASE session.step = 21
  <2>1. Story22' BY <1>12, StoriesOfTheBoot DEF Story
  <2>2. session'.step = 22 BY <1>2, <1>12
  <2> QED BY <2>1, <2>2 DEF Story
<1>13. CASE session.step = 22
  <2>1. Story23' BY <1>13, StoriesOfTheBoot DEF Story
  <2>2. session'.step = 23 BY <1>2, <1>13
  <2> QED BY <2>1, <2>2 DEF Story
<1>14. CASE session.step = 23
  <2>1. Story24' BY <1>14, StoriesOfTheBoot DEF Story
  <2>2. session'.step = 24 BY <1>2, <1>14
  <2> QED BY <2>1, <2>2 DEF Story
<1>15. \/ session.step \in {0, 1, 2, 3, 4} \/ session.step \in 5 .. 17
       \/ session.step \in {18, 19, 20, 21, 22, 23}
  BY <1>1
<1> QED BY <1>3, <1>4, <1>5, <1>6, <1>7, <1>8, <1>9, <1>10, <1>11, <1>12, <1>13, <1>14,
           <1>15

----------------------------------------------------------------------------
(* A session that nothing disturbs *)

\* What goes on after the questions.
Onward == Work \/ Continue \/ GiveUp \/ Interrupt

\* What keeps the machine and only ends the queue or the session.
Lull == HealthCheck \/ DryCommand \/ Finish \/ Continue \/ GiveUp \/ Interrupt

LEMMA LullFacts ==
  ASSUME InstallInv, Lull
  PROVE  /\ UNCHANGED machine /\ session'.step = session.step
         /\ session'.undisturbed = session.undisturbed
         /\ session'.stage \in {"run", "exited"}
         /\ \/ session'.queue \in {session.queue, <<>>}
            \/ session.queue # <<>> /\ session'.queue = Tail(session.queue)
<1>1. session \in Session /\ Placed BY DEF InstallInv, InstallerTypeOK
<1>2. UNCHANGED machine BY ChoicesKept DEF Lull
<1>3. CASE HealthCheck
  <2> DEFINE q == Tail(session.queue)
             code == IF HealthFailures THEN 2 ELSE 0
  <2>1. /\ session' = [session EXCEPT !.queue = q, !.code = code] /\ session.stage = "run"
        /\ session.queue # <<>>
    BY <1>3 DEF HealthCheck
  <2> HIDE DEF code
  <2>2. /\ session'.step = session.step /\ session'.undisturbed = session.undisturbed
        /\ session'.stage = "run" /\ session'.queue = q
    BY <1>1, <2>1 DEF Session
  <2> QED BY <1>2, <2>1, <2>2
<1>4. CASE DryCommand
  <2>1. session.stage = "run" /\ session.queue # <<>> /\ Proceed BY <1>4 DEF DryCommand
  <2> QED BY <1>2, <2>1, ProceedFacts DEF Proceed
<1>5. CASE Finish \/ GiveUp
  <2>1. session' = [session EXCEPT !.stage = "exited"] /\ session.queue = <<>>
    BY <1>1, <1>5 DEF Finish, AtEndOfStep, GiveUp, Placed
  <2>2. /\ session'.step = session.step /\ session'.undisturbed = session.undisturbed
        /\ session'.stage = "exited" /\ session'.queue = session.queue
    BY <1>1, <2>1 DEF Session
  <2> QED BY <1>2, <2>1, <2>2
<1>6. CASE Continue
  <2>1. session' = [session EXCEPT !.stage = "run", !.code = 0] /\ session.queue = <<>>
    BY <1>1, <1>6 DEF Continue, Placed
  <2>2. /\ session'.step = session.step /\ session'.undisturbed = session.undisturbed
        /\ session'.stage = "run" /\ session'.queue = session.queue
    BY <1>1, <2>1 DEF Session
  <2> QED BY <1>2, <2>1, <2>2
<1>7. CASE Interrupt
  <2>1. session' = [session EXCEPT !.stage = "exited", !.code = 130, !.queue = <<>>]
    BY <1>7 DEF Interrupt
  <2>2. /\ session'.step = session.step /\ session'.undisturbed = session.undisturbed
        /\ session'.stage = "exited" /\ session'.queue = <<>>
    BY <1>1, <2>1 DEF Session
  <2> QED BY <1>2, <2>2
<1> QED BY <1>3, <1>4, <1>5, <1>6, <1>7 DEF Lull

LEMMA FailingFacts ==
  ASSUME InstallInv, FailureIgnored \/ FailureRaised
  PROVE  /\ UNCHANGED machine /\ session.stage = "run" /\ session.queue # <<>>
         /\ session'.undisturbed => session.undisturbed
         /\ session'.stage \in {"run", "ask", "exited"}
         /\ session'.queue \in {Tail(session.queue), <<>>}
<1>1. session \in Session BY DEF InstallInv, InstallerTypeOK
<1>2. UNCHANGED machine /\ session.stage = "run" /\ session.queue # <<>>
  BY DEF FailureIgnored, FailureRaised, Fails
<1>3. CASE FailureIgnored
  <2> DEFINE s == [session EXCEPT !.queue = Tail(@)]
             quiet == s.undisturbed /\ failures' = failures
  <2>0. quiet => s.undisturbed OBVIOUS
  <2>1. session' = [s EXCEPT !.undisturbed = quiet] BY <1>3 DEF FailureIgnored, Disturbed
  <2> HIDE DEF quiet
  <2>2. /\ DOMAIN s = DOMAIN session /\ s.queue = Tail(session.queue)
        /\ s.stage = session.stage /\ s.undisturbed = session.undisturbed
    BY <1>1 DEF Session
  <2> HIDE DEF s
  <2>3. /\ session'.queue = Tail(session.queue) /\ session'.stage = session.stage
        /\ session'.undisturbed = quiet
    BY <1>1, <2>1, <2>2 DEF Session
  <2> QED BY <1>2, <2>0, <2>2, <2>3
<1>4. CASE FailureRaised
  <2> DEFINE stage == IF session.step <= Len(InstallSteps) THEN "ask" ELSE "exited"
             s == [session EXCEPT !.queue = <<>>, !.stage = stage, !.code = 1]
             quiet == s.undisturbed /\ failures' = failures
  <2>0. (quiet => s.undisturbed) /\ stage \in {"ask", "exited"} OBVIOUS
  <2>1. session' = [s EXCEPT !.undisturbed = quiet] BY <1>4 DEF FailureRaised, Disturbed
  <2> HIDE DEF quiet, stage
  <2>2. /\ DOMAIN s = DOMAIN session /\ s.queue = <<>>
        /\ s.stage = stage /\ s.undisturbed = session.undisturbed
    BY <1>1 DEF Session
  <2> HIDE DEF s
  <2>3. /\ session'.queue = <<>> /\ session'.stage = stage /\ session'.undisturbed = quiet
    BY <1>1, <2>1, <2>2 DEF Session
  <2> QED BY <1>2, <2>0, <2>2, <2>3
<1> QED BY <1>3, <1>4

LEMMA BeginFacts ==
  ASSUME InstallInv, BeginStep
  PROVE  /\ UNCHANGED machine /\ session'.step = session.step + 1
         /\ session.stage = "run" /\ session.queue = <<>> /\ session.step < 24
         /\ session'.undisturbed = session.undisturbed /\ session'.stage = "run"
         /\ session'.queue = CommandsOf(Program[session.step + 1], session)
<1>1. session \in Session BY DEF InstallInv, InstallerTypeOK
<1> DEFINE q == CommandsOf(Program[session.step + 1], session)
<1>2. /\ session' = [session EXCEPT !.step = @ + 1, !.queue = q]
      /\ UNCHANGED machine /\ session.stage = "run" /\ session.queue = <<>>
      /\ session.step < 24
  BY ProgramNames DEF BeginStep, AtEndOfStep
<1> HIDE DEF q
<1>3. /\ session'.step = session.step + 1 /\ session'.queue = q
      /\ session'.undisturbed = session.undisturbed /\ session'.stage = session.stage
  BY <1>1, <1>2 DEF Session
<1> QED BY <1>2, <1>3 DEF q

\* A session keeps its choices, and what disturbed it stays with it.
LEMMA Quiet ==
  ASSUME InstallInv, Onward
  PROVE  /\ session'.fresh = session.fresh /\ session'.disk = session.disk
         /\ session'.dry = session.dry /\ session'.encrypt = session.encrypt
         /\ session'.undisturbed => session.undisturbed /\ ~NoPackageManager
         /\ session'.stage \in {"run", "ask", "exited"}
<1>1. session \in Session BY DEF InstallInv, InstallerTypeOK
<1>2. CASE DiskCommand \/ WriteFile \/ Pacstrap
  <2>1. session.stage = "run" /\ session.queue # <<>> /\ Proceed /\ Undisturbed
    BY <1>2, DiskCommandHead DEF WriteFile, Pacstrap, Performs
  <2>2. ~NoPackageManager
    <3>1. failures \in Nat
      BY InstallerAssumption DEF InstallInv, InstallerTypeOK
    <3>2. failures' = failures BY <2>1 DEF Undisturbed
    <3> QED BY <3>1, <3>2 DEF NoPackageManager
  <2> QED BY <2>1, <2>2, ProceedFacts DEF Proceed
<1>3. CASE NoPackageManager
  <2>1. session' = [session EXCEPT !.queue = Tail(@), !.undisturbed = FALSE]
        /\ session.stage = "run"
    BY <1>3 DEF NoPackageManager, Performs
  <2>2. ~session'.undisturbed /\ session'.stage = "run" BY <1>1, <2>1 DEF Session
  <2> QED BY <1>3, <2>2, ChoicesKept
<1>4. CASE Lull /\ ~NoPackageManager
  BY <1>4, LullFacts, ChoicesKept DEF Lull
<1>5. CASE (FailureIgnored \/ FailureRaised) /\ ~NoPackageManager
  BY <1>5, FailingFacts, ChoicesKept
<1>6. CASE BeginStep /\ ~NoPackageManager
  BY <1>6, BeginFacts, ChoicesKept
<1> QED BY <1>2, <1>3, <1>4, <1>5, <1>6 DEF Onward, Work, FileCommand, Lull

LEMMA GentleFew ==
  /\ Gentle(<<>>)
  /\ \A a : Harmless(a) => Gentle(<<a>>)
  /\ \A a, b, c : Harmless(a) /\ Harmless(b) /\ Harmless(c) => Gentle(<<a, b, c>>)
<1>1. Gentle(<<>>) BY DEF Gentle
<1>2. ASSUME NEW a, Harmless(a) PROVE Gentle(<<a>>)
  <2> DEFINE q == <<a>>
  <2>1. DOMAIN q = {1} /\ q[1] = a OBVIOUS
  <2> HIDE DEF q
  <2>2. Gentle(q) BY <1>2, <2>1 DEF Gentle
  <2> QED BY <2>2 DEF q
<1>3. ASSUME NEW a, NEW b, NEW c, Harmless(a), Harmless(b), Harmless(c)
      PROVE  Gentle(<<a, b, c>>)
  <2> DEFINE q == <<a, b, c>>
  <2>1. DOMAIN q = {1, 2, 3} /\ q[1] = a /\ q[2] = b /\ q[3] = c OBVIOUS
  <2> HIDE DEF q
  <2>2. Gentle(q) BY <1>3, <2>1 DEF Gentle
  <2> QED BY <2>2 DEF q
<1> QED BY <1>1, <1>2, <1>3

LEMMA HarmlessCommands ==
  /\ \A f : Harmless(Write(f)) /\ Harmless(TryWrite(f)) /\ Harmless(Chroot(f))
  /\ Harmless(Run("health check"))
BY CommandFields DEF Harmless

\* Without a disk no step has a command for one.
LEMMA HarmlessQueues ==
  ASSUME session.disk = NoDisk, ~session.dry, NEW n \in 1 .. 24
  PROVE  Gentle(CommandsOf(Program[n], session))
<1> DEFINE Q(k) == CommandsOf(Program[k], session)
<1>1. session.disk = NoDisk /\ ~session.dry OBVIOUS
<1>2. /\ Q(1) = <<>> /\ Q(2) = <<>> /\ Q(3) = <<>> /\ Q(4) = <<>> /\ Q(5) = <<>>
  BY <1>1, StepCommands
  DEF PartitionCommands, FormatCommands, LuksCommands, BtrfsCommands, MountCommands, OnDisk
<1>3. /\ Q(19) = <<>> /\ Q(20) = <<>> /\ Q(22) = <<>>
  BY <1>1, StepCommands
  DEF UnmountCommands, RemountCommands, ReleaseCommands, OnDisk, OnlyLive
<1>4. /\ Q(23) = <<Run("health check")>> /\ Q(24) = <<TryWrite("firstboot service")>>
  BY <1>1, StepCommands DEF HealthCommands, FirstBootCommands, OnlyLive
<1>5. /\ efi => Q(21) = <<Chroot("loader"), Write("efi"), TryWrite("entries")>>
      /\ ~efi => Q(21) = <<Chroot("grub"), Write("grub defaults"), Chroot("grub.cfg")>>
  BY EntryQueues
<1> HIDE DEF Q
<1>6. /\ Gentle(Q(1)) /\ Gentle(Q(2)) /\ Gentle(Q(3)) /\ Gentle(Q(4)) /\ Gentle(Q(5))
      /\ Gentle(Q(19)) /\ Gentle(Q(20)) /\ Gentle(Q(22))
  BY <1>2, <1>3, GentleFew, Zenon
<1>7. Gentle(<<Run("health check")>>) BY HarmlessCommands, GentleFew
<1>8. Gentle(<<TryWrite("firstboot service")>>) BY HarmlessCommands, GentleFew
<1>9. Gentle(<<Chroot("loader"), Write("efi"), TryWrite("entries")>>)
  BY HarmlessCommands, GentleFew
<1>10. Gentle(<<Chroot("grub"), Write("grub defaults"), Chroot("grub.cfg")>>)
  BY HarmlessCommands, GentleFew
<1>11. Gentle(Q(21)) /\ Gentle(Q(23)) /\ Gentle(Q(24))
  BY <1>4, <1>5, <1>7, <1>8, <1>9, <1>10, Zenon
<1>12. ASSUME n \in 6 .. 18 PROVE Gentle(Q(n))
  <2>1. Brings(Q(n), n) BY <1>12, FileQueues DEF Q
  <2> QED BY <2>1 DEF Brings, Filing, Gentle, Harmless
<1>13. n \in {1, 2, 3, 4, 5} \/ n \in 6 .. 18 \/ n \in {19, 20, 21, 22, 23, 24}
  OBVIOUS
<1>14. Gentle(Q(n)) BY <1>6, <1>11, <1>12, <1>13
<1> QED BY <1>14 DEF Q

LEMMA GentleGoes ==
  ASSUME InstallInv, Gentle(session.queue), session.queue # <<>>
  PROVE  Harmless(Head(session.queue)) /\ Gentle(Tail(session.queue))
<1> DEFINE q == session.queue
           t == Tail(q)
<1>1. q \in Seq(Commands) /\ q # <<>>
  BY SessionFields DEF InstallInv, InstallerTypeOK
<1>2. Gentle(q) OBVIOUS
<1> HIDE DEF q
<1>3. /\ 1 \in DOMAIN q /\ q[1] = Head(q)
      /\ \A i \in DOMAIN t : i + 1 \in DOMAIN q /\ t[i] = q[i + 1]
  BY <1>1, TailFacts
<1> HIDE DEF t
<1>4. Harmless(Head(q)) /\ Gentle(t) BY <1>2, <1>3 DEF Gentle
<1> QED BY <1>4 DEF q, t

\* Nothing is mounted or unlocked by a session without work on a disk.
LEMMA BystanderKept ==
  ASSUME InstallInv, Onward, Bystander, Asked, Idle, session'.undisturbed
  PROVE  Idle'
<1>1. InstallInv /\ session \in Session /\ session.step \in Nat /\ Placed
  BY SessionFields DEF InstallInv, InstallerTypeOK
<1>2. session'.disk = session.disk /\ session'.dry = session.dry BY Quiet
<1>3. session.stage \in {"questions", "confirm", "run", "ask"}
  BY DiskCommandHead, BeginFacts, FailingFacts, Quiet
  DEF Onward, Work, FileCommand, WriteFile, Pacstrap, Performs, DryCommand, HealthCheck,
      Finish, AtEndOfStep, Continue, GiveUp, Interrupt
<1>4. Shut /\ (session.dry \/ Gentle(session.queue))
  <2>1. CASE session.stage \in {"questions", "confirm"}
    <3>1. Shut /\ session.queue = <<>> BY <2>1 DEF Asked, Story0, Queue
    <3> QED BY <3>1, GentleFew
  <2>2. CASE session.stage \in {"run", "ask"} BY <2>2 DEF Idle
  <2> QED BY <1>3, <2>1, <2>2
<1>5. ~DiskCommand
  <2> SUFFICES ASSUME DiskCommand PROVE FALSE OBVIOUS
  <2>1. ~session.dry /\ session.queue # <<>> /\ Head(session.queue).do \in DiskDoes
    BY DiskCommandHead
  <2>2. Harmless(Head(session.queue)) BY <1>4, <2>1, GentleGoes
  <2> QED BY <2>1, <2>2 DEF Harmless, DiskDoes
<1>6. mnt' = mnt /\ mapper' = mapper
  BY <1>5, LullFacts, FailingFacts, BeginFacts, Quiet
  DEF Onward, Work, FileCommand, WriteFile, Pacstrap, Lull, machine
<1>7. Shut' BY <1>4, <1>6 DEF Shut, Off
<1>8. session.dry \/ Gentle(session'.queue)
  <2> SUFFICES ASSUME ~session.dry PROVE Gentle(session'.queue) OBVIOUS
  <2>1. Gentle(session.queue) BY <1>4
  <2>2. session.queue # <<>> => Gentle(Tail(session.queue)) BY <2>1, GentleGoes
  <2>3. CASE BeginStep
    <3>1. session.disk = NoDisk BY DEF Bystander, Disk
    <3>2. \A n \in Nat : n < 24 => n + 1 \in 1 .. 24 OBVIOUS
    <3>3. session.step + 1 \in 1 .. 24 BY <1>1, <2>3, <3>2, BeginFacts
    <3> QED BY <2>3, <3>1, <3>3, BeginFacts, HarmlessQueues
  <2>4. CASE Lull BY <2>1, <2>2, <2>4, LullFacts, GentleFew
  <2>5. CASE FailureIgnored \/ FailureRaised BY <2>2, <2>5, FailingFacts, GentleFew
  <2>6. CASE WriteFile \/ Pacstrap
    <3>1. session.queue # <<>> /\ session.stage = "run" /\ Proceed
      BY <2>6 DEF WriteFile, Pacstrap, Performs
    <3>2. session'.queue = Tail(session.queue) BY <3>1, ProceedFacts DEF Proceed
    <3> QED BY <2>2, <3>1, <3>2
  <2> QED BY <1>5, <2>3, <2>4, <2>5, <2>6, Quiet DEF Onward, Work, FileCommand, Lull
<1> QED BY <1>2, <1>7, <1>8 DEF Idle

\* A real session goes on as its story tells.
LEMMA RealKept ==
  ASSUME InstallInv, Onward, RealInstall, Told, session.undisturbed, session'.undisturbed
  PROVE  /\ session'.stage # "ask"
         /\ session'.stage = "run" => Story'
         /\ session'.stage = "exited" /\ session'.step = 24 => StoryEnd'
<1>1. InstallInv /\ session \in Session /\ session.step \in Nat /\ Placed
  BY SessionFields DEF InstallInv, InstallerTypeOK
<1>2. /\ session.stage # "ask" /\ (session.stage = "run" => Story)
      /\ session'.disk = session.disk /\ session'.encrypt = session.encrypt
  BY Quiet DEF Told
<1>3. ASSUME UNCHANGED machine, Kept, Shut, Entered PROVE StoryEnd'
  BY <1>2, <1>3, StaysPut DEF StoryEnd
<1>4. ASSUME UNCHANGED machine, session.stage = "run", session.step = 24 PROVE StoryEnd'
  <2>1. Story24 BY <1>2, <1>4 DEF Story
  <2>2. Kept /\ Shut /\ Entered BY <2>1 DEF Story24, StoryEnd
  <2> QED BY <1>3, <1>4, <2>2
<1>5. CASE session.stage # "run"
  <2>1. Interrupt /\ session.stage \in {"questions", "confirm"}
    BY <1>2, <1>5, DiskCommandHead, BeginFacts, FailingFacts
    DEF Onward, Work, FileCommand, WriteFile, Pacstrap, NoPackageManager, Performs,
        DryCommand, HealthCheck, Finish, AtEndOfStep, Continue, GiveUp, Interrupt
  <2>2. session' = [session EXCEPT !.stage = "exited", !.code = 130, !.queue = <<>>]
    BY <2>1 DEF Interrupt
  <2>3. session'.stage = "exited" /\ session'.step = session.step
    BY <1>1, <2>2 DEF Session
  <2>4. session.step = 0 BY <1>1, <2>1 DEF Placed
  <2> QED BY <2>3, <2>4
<1>6. CASE session.stage = "run" /\ session.queue # <<>>
  <2>1. Busy /\ Story BY <1>1, <1>2, <1>6 DEF Busy
  <2>2. CASE Head(session.queue).do # "health check"
    <3>1. InstallerNext BY DEF Onward, InstallerNext
    <3>2. Possible(Head(session.queue)) \/ ~Head(session.queue).checked
      BY <2>1, <2>2, StoryGoes
    <3>3. session'.step = session.step BY <2>1, <2>2, <3>1, Turns
    <3>4. \/ session'.stage = "exited" /\ UNCHANGED machine
          \/ session'.stage = "run" /\ Went
      BY <2>1, <2>2, <3>1, <3>2, Turns
    <3>5. CASE session'.stage = "exited" /\ UNCHANGED machine
      BY <1>4, <1>6, <3>3, <3>5
    <3>6. CASE session'.stage = "run" /\ Went
      <4>1. Story' BY <2>1, <2>2, <3>6, StoryGoes
      <4> QED BY <3>6, <4>1
    <3> QED BY <3>4, <3>5, <3>6
  <2>3. CASE Head(session.queue).do = "health check"
    <3>1. session.step = 23 /\ Story23 /\ Tail(session.queue) = <<>>
      BY <2>1, <2>3, HealthOfItsOwn
    <3>2. Kept /\ Shut /\ Entered BY <3>1 DEF Story23, StoryEnd
    <3>3. HealthCheck \/ Interrupt
      <4>1. Head(session.queue).do \notin DiskDoes BY <2>3 DEF DiskDoes
      <4> QED BY <1>6, <2>3, <4>1, DiskCommandHead
          DEF Onward, Work, FileCommand, WriteFile, Pacstrap, NoPackageManager, Performs,
              DryCommand, FailureIgnored, FailureRaised, Fails, BeginStep, Finish,
              AtEndOfStep, Continue, GiveUp
    <3>4. UNCHANGED machine /\ session'.step = 23 BY <3>1, <3>3, LullFacts DEF Lull
    <3>5. StoryEnd' BY <1>3, <3>2, <3>4
    <3>6. CASE HealthCheck
      <4> DEFINE code == IF HealthFailures THEN 2 ELSE 0
      <4>1. session' = [session EXCEPT !.queue = Tail(@), !.code = code]
        BY <3>6 DEF HealthCheck
      <4> HIDE DEF code
      <4>2. session'.stage = "run" /\ session'.queue = Tail(session.queue)
        BY <1>1, <1>6, <4>1 DEF Session
      <4>3. Queue(<<>>)' BY <3>1, <4>2 DEF Queue
      <4>4. Story23' BY <3>5, <4>3 DEF Story23
      <4>5. Story' BY <3>4, <4>4, StoryThere
      <4> QED BY <4>2, <4>5
    <3>7. CASE Interrupt
      <4>1. session'.stage = "exited" BY <1>1, <3>7 DEF Interrupt, Session
      <4> QED BY <3>4, <4>1
    <3> QED BY <3>3, <3>6, <3>7
  <2> QED BY <2>2, <2>3
<1>7. CASE session.stage = "run" /\ session.queue = <<>>
  <2>1. BeginStep \/ Finish \/ Interrupt
    BY <1>7, DiskCommandHead
    DEF Onward, Work, FileCommand, WriteFile, Pacstrap, NoPackageManager, Performs,
        DryCommand, HealthCheck, FailureIgnored, FailureRaised, Fails, Continue, GiveUp
  <2>2. CASE BeginStep
    <3>1. /\ UNCHANGED machine /\ session'.step = session.step + 1 /\ session.step < 24
          /\ session'.stage = "run"
          /\ session'.queue = CommandsOf(Program[session.step + 1], session)
      BY <1>1, <2>2, BeginFacts
    <3>2. Begun BY <1>1, <1>2, <1>7, <3>1 DEF Begun
    <3>3. Story' BY <1>2, <1>7, <3>1, <3>2, StoryBegins
    <3> QED BY <3>1, <3>3
  <2>3. CASE Finish \/ Interrupt
    <3>1. UNCHANGED machine /\ session'.step = session.step BY <2>3, LullFacts DEF Lull
    <3>2. session'.stage = "exited" BY <1>1, <2>3 DEF Finish, Interrupt, Session
    <3> QED BY <1>4, <1>7, <3>1, <3>2
  <2> QED BY <2>1, <2>2, <2>3
<1> QED BY <1>5, <1>6, <1>7

LEMMA NothingOpen ==
  ASSUME InstallInv, OpenDisks = {} PROVE Shut
<1>1. /\ mnt \in Seq(Layer) /\ Len(mnt) >= 1 /\ Len(mnt) \in Nat /\ DOMAIN mnt = 1 .. Len(mnt)
      /\ mnt[1].disk = NoDisk /\ mnt[1].subvolume = "live"
      /\ \A i \in 2 .. Len(mnt) : mnt[i].disk \in Disks
      /\ mapper \in Disks \cup {NoDisk}
  BY LenProperties DEF InstallInv, InstallerTypeOK, LayersOK
<1>2. /\ mapper = NoDisk
      /\ \A i \in DOMAIN mnt :
           mnt[i].disk = NoDisk /\ mnt[i].efi = NoDisk /\ mnt[i].boot = NoDisk
  BY DEF OpenDisks, MountedDisks
<1>3. Len(mnt) = 1
  <2> SUFFICES ASSUME Len(mnt) # 1 PROVE FALSE OBVIOUS
  <2>1. 2 \in 2 .. Len(mnt) /\ 2 \in DOMAIN mnt BY <1>1
  <2>2. mnt[2].disk \in Disks /\ mnt[2].disk = NoDisk BY <1>1, <1>2, <2>1
  <2> QED BY <2>2, InstallerAssumption
<1>4. mnt[1] = LiveDirectory
  <2>1. 1 \in DOMAIN mnt BY <1>1, <1>3
  <2>2. mnt[1] \in Layer BY <1>1, <2>1, ElementOfSeq
  <2>3. mnt[1].efi = NoDisk /\ mnt[1].boot = NoDisk BY <1>2, <2>1
  <2> DEFINE l == mnt[1]
  <2>4. l \in Layer /\ l.disk = NoDisk /\ l.subvolume = "live" /\ l.efi = NoDisk
        /\ l.boot = NoDisk
    BY <1>1, <2>2, <2>3
  <2> HIDE DEF l
  <2>5. l = LiveDirectory BY <2>4 DEF Layer, LiveDirectory
  <2> QED BY <2>5 DEF l
<1> DEFINE p == <<LiveDirectory>>
<1>5. p \in Seq(Layer) /\ Len(p) = 1 /\ p[1] = LiveDirectory
  BY LiveLayer DEF LayersOK
<1>6. \A i \in 1 .. Len(mnt) : mnt[i] = p[i] BY <1>3, <1>4, <1>5
<1> HIDE DEF p
<1>7. mnt = p BY <1>1, <1>3, <1>5, <1>6, SeqEqual
<1> QED BY <1>2, <1>7 DEF Shut, Off, p

\* A session starts where nothing is open, and asks.
LEMMA StartClean ==
  ASSUME InstallInv, NEW dry \in BOOLEAN, NEW auto \in BOOLEAN, Start(dry, auto),
         session'.fresh
  PROVE  Asked' /\ Idle' /\ Told'
<1> DEFINE fresh == OpenDisks = {} /\ bare = {}
           open == OpenDisks
<1>0. fresh => OpenDisks = {} /\ bare = {} OBVIOUS
<1>1. session' = [NoSession EXCEPT
         !.stage = IF auto THEN "run" ELSE "questions",
         !.dry = dry \/ auto, !.encrypt = ~auto, !.fresh = fresh, !.leftover = open]
  BY DEF Start
<1>2. UNCHANGED machine BY DEF Start
<1> HIDE DEF fresh, open
<1>3. /\ session'.stage = (IF auto THEN "run" ELSE "questions") /\ session'.queue = <<>>
      /\ session'.dry = (dry \/ auto) /\ session'.fresh = fresh
  BY <1>1 DEF NoSession
<1>4. Shut /\ bare = {} BY <1>0, <1>3, NothingOpen
<1>5. Shut' /\ bare' = {} /\ Queue(<<>>)'
  BY <1>2, <1>3, <1>4 DEF Shut, Off, machine, Queue
<1>6. CASE auto
  <2>1. session'.stage = "run" /\ session'.dry BY <1>3, <1>6
  <2> QED BY <1>5, <2>1 DEF Asked, Idle, Told, RealInstall
<1>7. CASE ~auto
  <2>1. session'.stage = "questions" BY <1>3, <1>7
  <2>2. Story0' BY <1>5 DEF Story0
  <2> QED BY <2>1, <2>2 DEF Asked, Idle, Told, Complete
<1> QED BY <1>6, <1>7

LEMMA AnswersFacts ==
  ASSUME InstallInv,
         \/ \E d \in Disks \cup {NoDisk}, encrypt \in BOOLEAN : Answer(d, encrypt)
         \/ UnknownProfile \/ Confirm \/ Abort
  PROVE  /\ UNCHANGED machine /\ session.stage \in {"questions", "confirm"}
         /\ session'.step = 0 /\ session'.queue = <<>> /\ session.undisturbed
         /\ session'.fresh = session.fresh
         /\ session'.stage \in {"confirm", "run", "exited"}
<1>1. session \in Session /\ Placed BY DEF InstallInv, InstallerTypeOK
<1>2. ASSUME NEW d \in Disks \cup {NoDisk}, NEW encrypt \in BOOLEAN, Answer(d, encrypt)
      PROVE  /\ UNCHANGED machine /\ session.stage = "questions"
             /\ session'.step = session.step /\ session'.queue = session.queue
             /\ session'.fresh = session.fresh /\ session'.stage = "confirm"
  BY <1>1, <1>2 DEF Answer, Session
<1>3. ASSUME UnknownProfile \/ Confirm \/ Abort
      PROVE  /\ UNCHANGED machine /\ session.stage \in {"questions", "confirm"}
             /\ session'.step = session.step /\ session'.queue = session.queue
             /\ session'.fresh = session.fresh /\ session'.stage \in {"run", "exited"}
  <2> DEFINE typed == Disk # NoDisk /\ ~session.dry
  <2>1. /\ session.stage \in {"questions", "confirm"} /\ UNCHANGED machine
        /\ \/ session' = [session EXCEPT !.stage = "exited", !.code = 1]
           \/ session' = [session EXCEPT !.stage = "run", !.typed = typed]
           \/ session' = [session EXCEPT !.stage = "exited", !.code = 0]
    BY <1>3 DEF UnknownProfile, Confirm, Abort
  <2> HIDE DEF typed
  <2>2. /\ session'.step = session.step /\ session'.queue = session.queue
        /\ session'.fresh = session.fresh /\ session'.stage \in {"run", "exited"}
    BY <1>1, <2>1 DEF Session
  <2> QED BY <2>1, <2>2
<1>4. /\ UNCHANGED machine /\ session.stage \in {"questions", "confirm"}
      /\ session'.step = session.step /\ session'.queue = session.queue
      /\ session'.fresh = session.fresh /\ session'.stage \in {"confirm", "run", "exited"}
  BY <1>2, <1>3
<1>5. session.step = 0 /\ session.queue = <<>> /\ session.undisturbed
  BY <1>1, <1>4 DEF Placed
<1> QED BY <1>4, <1>5

LEMMA AnswersClean ==
  ASSUME InstallInv, CleanInv, session'.fresh,
         \/ \E d \in Disks \cup {NoDisk}, encrypt \in BOOLEAN : Answer(d, encrypt)
         \/ UnknownProfile \/ Confirm \/ Abort
  PROVE  Asked' /\ Idle' /\ Told'
<1>1. /\ UNCHANGED machine /\ session.stage \in {"questions", "confirm"}
      /\ session'.step = 0 /\ session'.queue = <<>> /\ session.undisturbed
      /\ session'.fresh = session.fresh
      /\ session'.stage \in {"confirm", "run", "exited"}
  BY AnswersFacts
<1>2. Story0 BY <1>1 DEF CleanInv, Asked
<1>3. Shut' /\ bare' = {} /\ Queue(<<>>)'
  BY <1>1, <1>2 DEF Story0, Shut, Off, machine, Queue
<1>4. Story0' BY <1>3 DEF Story0
<1>5. Gentle(session'.queue) BY <1>1, GentleFew
<1>6. Story' BY <1>1, <1>4 DEF Story
<1>7. session'.stage # "ask" /\ session'.step # 24 BY <1>1
<1>8. ~Complete' BY <1>7, ProgramNames DEF Complete
<1>9. Asked' BY <1>4 DEF Asked
<1>10. Idle' BY <1>3, <1>5 DEF Idle
<1>11. Told' BY <1>6, <1>7, <1>8 DEF Told
<1> QED BY <1>9, <1>10, <1>11

LEMMA CleanStep == ASSUME InstallInv, CleanInv, InstallerNext PROVE CleanInv'
<1> SUFFICES ASSUME session'.fresh, session'.undisturbed PROVE Asked' /\ Idle' /\ Told'
  BY DEF CleanInv
<1>1. CASE \E dry, auto \in BOOLEAN : Start(dry, auto) BY <1>1, StartClean
<1>2. CASE \/ \E d \in Disks \cup {NoDisk}, encrypt \in BOOLEAN : Answer(d, encrypt)
           \/ UnknownProfile \/ Confirm \/ Abort
  BY <1>2, AnswersClean
<1>3. CASE Onward
  <2>1. /\ session.fresh /\ session.undisturbed
        /\ session'.disk = session.disk /\ session'.dry = session.dry
        /\ session'.stage \in {"run", "ask", "exited"}
    BY <1>3, Quiet
  <2>2. Asked /\ Idle /\ Told BY <2>1 DEF CleanInv
  <2>3. Asked' BY <2>1 DEF Asked
  <2>4. CASE Bystander
    <3>1. Idle' BY <1>3, <2>2, <2>4, BystanderKept
    <3>2. ~RealInstall' BY <2>1, <2>4 DEF Bystander, RealInstall, Disk
    <3> QED BY <2>3, <3>1, <3>2 DEF Told
  <2>5. CASE ~Bystander
    <3>1. RealInstall BY <2>5 DEF Bystander, RealInstall, Disk
    <3>2. /\ session'.stage # "ask"
          /\ session'.stage = "run" => Story'
          /\ session'.stage = "exited" /\ session'.step = 24 => StoryEnd'
      BY <1>3, <2>1, <2>2, <3>1, RealKept
    <3>3. Complete' => StoryEnd' BY <3>2, ProgramNames DEF Complete
    <3>4. Told' BY <3>2, <3>3 DEF Told
    <3>5. ~Bystander' BY <2>1, <2>5 DEF Bystander, Disk
    <3> QED BY <2>3, <3>4, <3>5 DEF Idle
  <2> QED BY <2>4, <2>5
<1> QED BY <1>1, <1>2, <1>3 DEF InstallerNext, Onward

\* While nothing changes the story stays where it is.
LEMMA StoryStands ==
  ASSUME UNCHANGED <<efi, content, mapper, mnt, bare, session>>
  PROVE  (Story => Story') /\ (StoryEnd => StoryEnd')
<1>0. /\ efi' = efi /\ content' = content /\ mapper' = mapper /\ mnt' = mnt /\ bare' = bare
      /\ session' = session
  OBVIOUS
<1>1. /\ Disk' = Disk /\ Esp' = Esp /\ Key' = Key /\ Held' = Held
      /\ (Off <=> Off') /\ (Shut <=> Shut') /\ (Formatted <=> Formatted')
      /\ (content[Disk].parts <=> (content[Disk].parts)')
      /\ (content[Disk].luks <=> (content[Disk].luks)')
      /\ content[Disk].esp = (content[Disk].esp)' /\ (efi <=> efi')
      /\ content[Disk].boot = (content[Disk].boot)' /\ (Grubless <=> Grubless')
  BY <1>0 DEF Disk, Esp, Key, Held, Off, Shut, Formatted, Grubless
<1>2. /\ (Made("made") <=> Made("made")') /\ (Made("ready") <=> Made("ready")')
      /\ (Rooted <=> Rooted')
  BY <1>0 DEF Made, Rooted, Disk
<1>3. (Base <=> Base') /\ (Filled <=> Filled') /\ (Kept <=> Kept')
  BY <1>0, <1>1, <1>2 DEF Base, Filled, Kept
<1>4. (Unentered <=> Unentered') /\ (Loaded <=> Loaded') /\ (Entered <=> Entered')
  BY <1>0, <1>1 DEF Unentered, Loaded, Entered, Disk
<1>5. /\ (On("top", NoDisk, NoDisk) <=> On("top", NoDisk, NoDisk)')
      /\ (On("@", NoDisk, NoDisk) <=> On("@", NoDisk, NoDisk)')
      /\ (On("@", Esp, NoDisk) <=> On("@", Esp, NoDisk)')
      /\ (On("@", Esp, Disk) <=> On("@", Esp, Disk)')
  BY <1>0, <1>1 DEF On
<1>6. /\ (Again(NoDisk, NoDisk) <=> Again(NoDisk, NoDisk)')
      /\ (Again(Esp, NoDisk) <=> Again(Esp, NoDisk)')
      /\ (Again(Esp, Disk) <=> Again(Esp, Disk)')
  BY <1>0, <1>1, <1>5 DEF Again
<1>7. Story0 => Story0'
  BY <1>0, <1>1, <1>2, <1>3, <1>4, <1>5, <1>6, Zenon DEF Story0, Queue
<1>8. Story1 => Story1'
  BY <1>0, <1>1, <1>2, <1>3, <1>4, <1>5, <1>6, Zenon DEF Story1, Queue
<1>9. Story2 => Story2'
  BY <1>0, <1>1, <1>2, <1>3, <1>4, <1>5, <1>6, Zenon DEF Story2, Queue
<1>10. Story3 => Story3'
  BY <1>0, <1>1, <1>2, <1>3, <1>4, <1>5, <1>6, Zenon DEF Story3, Queue
<1>11. Story4 => Story4'
  BY <1>0, <1>1, <1>2, <1>3, <1>4, <1>5, <1>6, Zenon DEF Story4, Queue
<1>12. Story5 => Story5'
  BY <1>0, <1>1, <1>2, <1>3, <1>4, <1>5, <1>6, Zenon DEF Story5, Queue
<1>13. Story19 => Story19'
  BY <1>0, <1>1, <1>2, <1>3, <1>4, <1>5, <1>6, Zenon DEF Story19, Queue
<1>14. Story20 => Story20'
  BY <1>0, <1>1, <1>2, <1>3, <1>4, <1>5, <1>6, Zenon DEF Story20, Queue
<1>15. Story21 => Story21'
  BY <1>0, <1>1, <1>2, <1>3, <1>4, <1>5, <1>6, Zenon DEF Story21, Queue
<1>16. Story22 => Story22'
  BY <1>0, <1>1, <1>2, <1>3, <1>4, <1>5, <1>6, Zenon DEF Story22, Queue
<1>17. StoryFiles => StoryFiles' BY <1>0, <1>1, <1>3, <1>5 DEF StoryFiles
<1>18. StoryEnd => StoryEnd' BY <1>1, <1>3, <1>4 DEF StoryEnd
<1>19. (Story23 => Story23') /\ (Story24 => Story24')
  BY <1>0, <1>18 DEF Story23, Story24, Queue
<1> QED
  BY <1>0, <1>7, <1>8, <1>9, <1>10, <1>11, <1>12, <1>13, <1>14, <1>15, <1>16, <1>17, <1>18,
     <1>19
  DEF Story

LEMMA CleanKept ==
  ASSUME TypeInv, CleanInv, [RecoveryNext]_rvars PROVE CleanInv'
<1>1. InstallInv /\ (running # LiveSystem => session.stage = "off") BY DEF TypeInv
<1>2. CASE InstallerNext BY <1>1, <1>2, CleanStep
<1>3. CASE session'.stage = "off"
  BY <1>3 DEF CleanInv, Asked, Idle, Told, Complete
<1>4. CASE UNCHANGED <<efi, content, mapper, mnt, bare, session>>
  <2>1. /\ efi' = efi /\ content' = content /\ mapper' = mapper /\ mnt' = mnt
        /\ bare' = bare /\ session' = session
    BY <1>4
  <2>2. (Story => Story') /\ (StoryEnd => StoryEnd') BY <1>4, StoryStands
  <2>3. Asked => Asked' BY <2>1 DEF Asked, Story0, Shut, Off, Queue
  <2>4. Idle => Idle' BY <2>1 DEF Idle, Shut, Off, Bystander, Disk, Gentle
  <2>5. Told => Told' BY <2>1, <2>2 DEF Told, RealInstall, Complete
  <2> QED BY <2>1, <2>3, <2>4, <2>5 DEF CleanInv
<1>5. CASE GoesDown
  <2>1. session'.stage = "off" BY <1>1, <1>5, GoesDownTypes
  <2> QED BY <1>3, <2>1
<1>6. CASE Repair
  <2>1. OnInstalled /\ session' = session BY <1>6 DEF Repair
  <2>2. running # LiveSystem BY <1>1, <2>1, RunningFacts DEF TypeInv
  <2>3. session'.stage = "off" BY <1>1, <2>1, <2>2
  <2> QED BY <1>3, <2>3
<1>7. CASE \E d \in Disks : AddMissing(d)
  <2>1. running = Down /\ session' = session BY <1>7 DEF AddMissing
  <2>2. Down # LiveSystem BY DownIsNoDisk DEF Down, LiveSystem
  <2>3. session'.stage = "off" BY <1>1, <2>1, <2>2
  <2> QED BY <1>3, <2>3
<1>8. \/ InstallerNext \/ GoesDown \/ Repair \/ \E d \in Disks : AddMissing(d)
      \/ UNCHANGED <<efi, content, mapper, mnt, bare, session>>
  BY DEF RecoveryNext, Live, Boots, Lives, Recovers, BootLive, BootDisk, Restart, TakeSnapshot,
         DeleteSnapshot, Update, BootPrevious, RollbackUpdate, SetDefault, EngineRollback,
         EngineBootPrevious, rvars, ivars, machine
<1> QED BY <1>2, <1>4, <1>5, <1>6, <1>7, <1>8

LEMMA CleanHolds == FairRecoverySpec => [](TypeInv /\ CleanInv)
<1>1. RecoveryInit => CleanInv
  BY DEF RecoveryInit, InstallerInit, CleanInv, Asked, Idle, Told, Complete, NoSession
<1>2. RecoveryInit => TypeInv /\ CleanInv BY <1>1, TypesAtStart
<1>3. TypeInv /\ CleanInv /\ [RecoveryNext]_rvars => (TypeInv /\ CleanInv)'
  BY TypesKept, CleanKept
<1> QED BY <1>2, <1>3, PTL DEF FairRecoverySpec

LEMMA EndFacts ==
  ASSUME CleanInv, Clean
  PROVE  Shut /\ (RealInstall => StoryEnd) /\ mnt = <<LiveDirectory>>
<1>1. /\ Asked /\ Idle /\ Told /\ Complete /\ session.stage = "exited"
  BY DEF CleanInv, Clean, Complete
<1>2. RealInstall => StoryEnd BY <1>1 DEF Told
<1>3. ~RealInstall => Shut BY <1>1 DEF Idle, Bystander, RealInstall, Disk
<1>4. Shut BY <1>2, <1>3 DEF StoryEnd
<1> QED BY <1>2, <1>4 DEF Shut, Off

(***************************************************************************)
(* A session that found nothing open and in which no command failed leaves *)
(* nothing mounted and nothing unlocked (_step_unmount,                    *)
(* installer/kairos_installer.py:1845-1868), whatever is mounted again for *)
(* the bootloader (phase_bootloader, :1881-1905): an encrypted root cannot *)
(* be, and another is unmounted a second time.                             *)
(***************************************************************************)
THEOREM CleanSessionsDoClose == FairRecoverySpec => []CleanSessionsCloseAll
<1>1. CleanInv => CleanSessionsCloseAll
  <2> SUFFICES ASSUME CleanInv, Clean PROVE OpenDisks = {} BY DEF CleanSessionsCloseAll
  <2>1. Off /\ mapper = NoDisk BY EndFacts DEF Shut
  <2>2. \A i \in DOMAIN mnt :
          mnt[i].disk = NoDisk /\ mnt[i].efi = NoDisk /\ mnt[i].boot = NoDisk
    BY <2>1, OffFacts
  <2> QED BY <2>1, <2>2 DEF OpenDisks, MountedDisks
<1> QED BY <1>1, CleanHolds, PTL

(***************************************************************************)
(* Such a session has put the configuration, the base system, the accounts *)
(* and the initramfs on the chosen disk, encrypted as chosen, and none of  *)
(* the configuration into the live system: what _step_mount                *)
(* (installer/kairos_installer.py:1344-1378) has mounted stays there until *)
(* _step_unmount (:1845-1868), and what the bootloader's phase writes      *)
(* elsewhere (:1881-2018) takes nothing of it away.                        *)
(***************************************************************************)
THEOREM CleanInstallsReachTheDisk == FairRecoverySpec => []CleanInstallsAreOnTheDisk
<1>1. CleanInv => CleanInstallsAreOnTheDisk
  <2> SUFFICES ASSUME CleanInv, Clean, RealInstall
               PROVE  /\ content[Disk].luks = session.encrypt
                      /\ ConfigFiles \cup {"packages", "accounts", "initramfs"}
                           \subseteq FilesOf(Disk, "@")
                      /\ bare \cap ConfigFiles = {}
    BY DEF CleanInstallsAreOnTheDisk
  <2>1. Rooted /\ DueFiles \subseteq Held /\ bare \cap (ConfigFiles \cup {"packages"}) = {}
    BY EndFacts DEF StoryEnd, Kept
  <2>2. Held = FilesOf(Disk, "@") BY DEF Held, Lying, FilesOf
  <2> QED BY <2>1, <2>2 DEF Rooted, DueFiles
<1> QED BY <1>1, CleanHolds, PTL

(***************************************************************************)
(* And it leaves a disk with a base system and its kernel that does not    *)
(* boot.  Without UEFI there is no GRUB, which no profile lists            *)
(* (installer/kairos_installer.py:461-567).  With UEFI the kernel lies on  *)
(* the file system of /boot and the entries name it on the EFI partition   *)
(* (:1942-1949); an encrypted root, closed before (:1867-1868), is not     *)
(* even mounted again (:1881-1890), so that bootctl (:1911) fails and the  *)
(* entries go to the live system's own /mnt.                               *)
(***************************************************************************)
THEOREM CleanInstallsNeedAHand == FairRecoverySpec => []CleanInstallsDoNotBoot
<1>1. CleanInv => CleanInstallsDoNotBoot
  <2> SUFFICES ASSUME CleanInv, Clean, RealInstall
               PROVE  /\ content[Disk].parts /\ "packages" \in FilesOf(Disk, "@")
                      /\ "kernel" \in content[Disk].boot
                      /\ Missing(Disk) = IF ~efi THEN {"grub", "grub.cfg"}
                                         ELSE IF session.encrypt
                                         THEN {"loader", "entries", "kernel"}
                                         ELSE {"kernel"}
    BY DEF CleanInstallsDoNotBoot
  <2>1. Kept /\ Entered BY EndFacts DEF StoryEnd
  <2>2. Held = FilesOf(Disk, "@") BY DEF Held, Lying, FilesOf
  <2>3. /\ content[Disk].parts /\ "packages" \in FilesOf(Disk, "@")
        /\ "kernel" \in content[Disk].boot
    BY <2>1, <2>2 DEF Kept, Rooted, DueFiles
  <2>4. CASE ~efi
    <3>1. "grub" \notin FilesOf(Disk, "@") /\ "grub.cfg" \notin FilesOf(Disk, "@")
      BY <2>1, <2>2, <2>4 DEF Entered, Unentered, Grubless
    <3> QED BY <2>3, <2>4, <3>1 DEF Missing
  <2>5. CASE efi /\ session.encrypt
    <3>1. content[Disk].esp = {"fat"} BY <2>1, <2>5 DEF Entered, Unentered
    <3> QED BY <2>3, <2>5, <3>1 DEF Missing
  <2>6. CASE efi /\ ~session.encrypt
    <3>1. content[Disk].esp = {"fat", "loader", "entries"} BY <2>1, <2>6 DEF Entered
    <3> QED BY <2>3, <2>6, <3>1 DEF Missing
  <2> QED BY <2>4, <2>5, <2>6
<1> QED BY <1>1, CleanHolds, PTL
=============================================================================
