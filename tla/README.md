# Verification of install_linux

`install_linux` is the set of shell scripts that turns a freshly imaged Ubuntu
machine into a finished one: drivers, packages, drives, boot and network
configuration.  The scripts run with no supervision except an operator who
answers prompts, over several reboots, on a machine that can lose power, lose
the network, or start them twice.  Everything they know across a reboot lives in
files.  None of this is covered by a test in the repository.  The repository also
carries the source of two programs that the scripts build and that are concurrent
in their own right: the r8125 network driver and the OpenSLP daemon.  The modules in
this directory model the scripts and the concurrent cores of those two as they are in
`src/`, check them with TLC, and prove the main results for all values of the
constants with TLAPS.

## Inventory

| Part | State it keeps | Operations | What makes it correct |
|---|---|---|---|
| `master.sh` | launch line in `~/.bashrc` or `/etc/profile.d/master.sh`; shell variables of a run | the calls in order, two places that reboot, "Stop autorun" | interrupted runs are resumed; the end is final |
| `functions/global.sh` | `flags/orderid`, `orderdata/orderdata` | `_os_check`, `_orderid`, `_orderdata` | later stages see the whole order |
| `functions/drivers.sh` | `/etc/init.d/hptdrv-monitor`, kernel modules, packages | `_hp7505`, `_hp640L`, `_hp3720c`, `_BC9560`, `_nvidia`, `_amdigpu` | drivers are loaded before drives are handled; the reboot does not repeat for ever |
| `functions/fixes.sh` | `/etc/default/grub`, `/etc/netplan/01-netcfg.yaml`, `$ostype` | `_mobofix`, `_netman`, `_grubtime`, `_gnome` | every needed kernel argument, none twice; one netplan definition |
| `functions/software.sh`, `updates.sh` | packages | one call each | owed software is there at the end |
| `functions/client.sh` | - | `_viz_os_check` ends the run | - |
| `scripts/mount.sh`, `disk_functions.sh` | partition tables, file systems, `/etc/fstab`, `flags/mount.sh` | scan, count, name, ask, `_mount`, `_format` | only accepted disks change; the system disk is safe; fstab resolves at the next boot |
| `scripts/standalone_mount.sh` | as `mount.sh`, without a flag | the same loop | as `mount.sh` |
| `scripts/highpoint.sh` | `flags/hp_flag`, `hp_flag1`, `arraytype`, launch lines | three reboots around building an array | steps in order; launch line moves and comes back |
| `scripts/intel_display.sh` | `flags/intel_flag`, launch lines, kernels, headers, DKMS packages | two reboots around a kernel | the flag at the end is true; no launch line is left; it ends |
| `r8125_n.c`, transmit path | `cur_tx`, `dirty_tx`, `BeginHwDesCloPtr`, descriptors, `tx_skb[]`, the queue's state | `start_xmit`, the recycling in the NAPI poll, the chip, `tx_timeout`, `reset_task` | nothing is freed or overwritten under the chip; a stopped queue restarts; every packet is freed |
| `r8125_n.c`, receive path | `cur_rx`, `dirty_rx`, descriptors, `Rx_skbuff[]` or `rx_buffer[]` | `rtl8125_rx_interrupt`, `rtl8125_rx_fill`, the chip, the stack's frees, `reset_task` | the chip writes only where nobody reads; no page is lost; chip and driver stay in step; every frame is taken |
| `r8125_n.c`, interface | rings, vectors, NAPI, flags, delayed works, masks, carrier | open, close, set_ringparam, change_mtu, suspend, resume, three works, interrupts | no use of freed rings; quiet when down; the rtnl lock comes back; the carrier follows the link |
| `slpd` | `G_SlpdKnownDAs`, `G_OutgoingSocketList`, the database | registrations, adverts, retries, ageing, SIGHUP, SIGTERM | a known directory agent has every registration, or is about to |
| `vizgen_automation.sh`, `user-data` | disk, fstab, netplan, grub | one first-boot pass | - |
| `review.sh`, `test.sh`, `clean.sh`, `hostname.sh`, `tidy.sh`, benchmarks | reports, or files removed | single passes | - |
| the rest of `assets/` | - | storage manager, MediaTek package, power-limit script, the other parts of r8125 and OpenSLP | third party |

The parts interact through files only: a login runs the launch line, which starts
`master.sh`; `master.sh` calls the functions, which share its shell variables
(`$ostype`, `$orderid`, `$partition`, `$mount` are globals), and starts `mount.sh`
as a process.  The hard behaviour is what happens *between* the commands: a power
loss or a closed terminal between any two of them, a second instance started by a
second launch line or a second shell, a sed whose pattern depends on what an
earlier sed left, a download that fails unnoticed.  In the two C programs it is what
happens at the same time: transmitter, poll and chip on one ring; interrupts, NAPI and
works beside the holder of the rtnl lock; datagrams that are lost, doubled and overtaken
between two daemons that both restart.  `PROJECT.json` lists these hazards, each at its
line.

## Modules

- **`GrubDefaults`**: the edits to `/etc/default/grub` as pure operators.  A kernel
  line is a sequence of words; what a sed does is kept exactly as far as its
  pattern matters: `splash"` matches only when `splash` is the last word, `""` only
  the empty line.
- **`Provisioning`**: the abstract promise: a machine waits for a login, runs, and
  is complete; a launch line is there whenever it waits, and gone once complete.
- **`Master`**: `master.sh` with all its functions.  `proc[p]` holds a process: its
  place in the call sequence (`pc`) and the shell variables `ostype`, `orderid`
  and the card being installed.  `disk` is everything that survives a reboot.  One
  action is one function, except where a function writes several files or asks a
  question, and a crash or a second instance can get in between: the order number, the
  order data, the HighPoint functions and the netplan file are split there.  `Login`,
  `Launch`, `NewSession`, `PowerDown`, `PowerLoss`, `PowerCycle` and `CloseTerminal`
  are the machine and its operator.
- **`MountDrives`**: `mount.sh` and `_format`.  The disks are offered in any order, a
  name belongs to a *kind* (what the name and smartctl say), and each command of
  `_format` is a step.  `Candidates` is the list without the disk that carries `/boot/efi`.  `partition` is the global `$partition`.
- **`MountPath`**: `_mount`, a loop that calls itself.  `stack` says where each outer
  activation will go on, `mount` is the one global they share.
- **`HighPoint`**: `highpoint.sh` and `_arraytype`.  `pc` is the command that comes next;
  `disk` holds the flags, the type file, the launch lines and what is installed,
  `arrays` the arrays on the controller.  Each command that changes one of them is a
  step, so that a power loss or a closed terminal falls between any two of them.
  `consented` and `ended` record what the properties speak of: the operator's Y, and by
  which branch the completion flag was written.
- **`IntelDisplay`**: `intel_display.sh` in one terminal per launch line.  `pc[t]` is the
  command that comes next; `sudo reboot` only announces the reboot, and a terminal makes up
  to `MaxAfter` further steps before it comes.  `Start` is what lies between the start of the
  script and its first command: line 7 asks sudo for the board, so that a terminal may stay at
  the password prompt while another one works, and lines 9-26 then read the flags, with nothing
  to wait for between them.  `due` is the step that `intel_flag` led to at the login, and `late`
  records that a terminal has read the flag after another had changed it.  DKMS and apt are modelled by what the script
  expects of them: drivers are built for the kernels whose headers are there.
- **`R8125Tx`**: one transmit ring.  `start_xmit`, the recycling loop and the chip make a
  step at each access to a word that another of them writes; `seen` is `dirty_tx` as the
  transmitting CPU sees it, as the poll publishes it with `smp_wmb` only.  Both modes of
  the chip are there: shared descriptors with DescOwn, and tail and close pointers
  (`EnableTxNoClose`).  The pointers keep their width (`PtrMod`, `CloMod`).  A reset takes the
  ring down (`TakeDown`) and either builds it anew (`Reinit`) or, when receive buffers are
  missing, leaves chip and queue off and schedules itself again (`Shortage`); the chip and the
  carrier stay off (`on`) until link work (`LinkOn`) has found the link up, which nothing in the
  model makes happen.  `LinkOn` restarts the chip and leaves the pointers of the driver alone.
  Two constants let in what the code does not keep apart: `Bounce` (link work may find the link up
  on a ring in use) and `Drop` (it may find it down while a poll runs).
- **`R8125Rx`**: one receive ring, in both builds: the frame is copied, or goes up in its half
  of a page whose other half goes back to the chip (`ENABLE_PAGE_REUSE`).  The chip's frame,
  a taken descriptor and a filled one are a step each.  `dma` is the address the chip took
  when it began a frame, `refs` the reference counts of the pages, `held` the halves that the
  stack has.
- **`R8125`**: the interface.  An operation is the sequence of calls it makes (`todo`),
  held with the rtnl lock, and interrupts, NAPI, `start_xmit`, the watchdog and the cable
  step in between.  An operation whose allocation fails goes on as its code does (`Fails`);
  the three places that do not look at what `rtl8125_init_ring` returns make the call `Refill`.
- **`SlpRegistration`**: `slpd` as a service agent that registers with another `slpd`, the
  directory agent.  `socks` is the list of outgoing sockets with what each has left to send,
  `net` and `acks` what is on the way.  Lost datagrams are removed; doubled ones come from
  resending; each arrives in any order.
- **`MasterProofs`**, **`MountDrivesProofs`** (with those of `MountPath`), **`HighPointProofs`**,
  **`IntelDisplayProofs`**, **`SlpProofs`**, **`R8125TxProofs`**, **`R8125RxProofs`**,
  **`R8125Proofs`**: theorems and proofs.
- **`MCMaster`**, **`MCMountDrives`**, **`MCMountPath`**, **`MCHighPoint`**,
  **`MCIntelDisplay`**, **`MCR8125Tx`**, **`MCR8125Rx`**, **`MCR8125`**,
  **`MCSlpRegistration`**: machines and model values for TLC.

`Master`, `MountDrives` and `HighPoint` meet in two places: `Master!StartMount` and
`EndMount` stand for the whole pass of `MountDrives`, of which `Master` needs only the
flag, and `HighPoint` and `IntelDisplay` hand the machine over to `Master` with
`disk.master` and `masters`.  `R8125` and `R8125Tx` meet in `XmitBegin`, `PollEnd` and the
reset: `R8125` knows whether a packet or a poll is under way, `R8125Tx` what it does, and
`R8125Tx!ResetTask` is the reset of `R8125` from the quiescence on, and `LinkDown` and `LinkOn`
are its link work.
`R8125Rx` has the same reset from the other ring: `ResetBegin` to `Reinit` or `Shortage` are
the calls of `R8125!ResetCalls`, with `R8125!RxNoStuck` as `dirty = cur`, and `LinkOn` is the
end of the link work.

### How code maps to state and actions

| Code | Model |
|---|---|
| `flags/orderid` holding 0, 1 or more lines | `disk.idlines`; two lines read as the number `"garbled"` |
| `orderdata/orderdata` | `disk.orderdata`, the order items that matter: RAID setup, Gnome, Vizgen, courtesy software |
| number of launch lines in a login file | `disk.launch[file]` |
| `/etc/init.d/hptdrv-monitor` | `disk.hptdrv` |
| driver modules built / loaded by this boot | `disk.drivers` / `loaded` |
| packages and drivers on the machine | `disk.applied` |
| `flags/mount.sh` | `disk.mounted` in `Master`, `flag` in `MountDrives` |
| definitions in `01-netcfg.yaml` | `disk.netplan` |
| past "Stop autorun" | `finished` |
| `flags/hp_flag`, `hp_flag1`, `flags/highpoint.sh` | `disk.hp_flag`, `hp_flag1`, `done` in `HighPoint` |
| lines of `flags/arraytype` | the sequence `disk.arraytype` |
| launch lines of `master.sh` and `highpoint.sh` | `disk.master`, `disk.highpoint` |
| lspci, dmidecode, os-release, lsblk, smartctl | `machine`, `kind`, `root`, `firmware`; fixed |
| `flags/intel_flag`, `flags/intel_display.sh`, lines of `profile.d/intel_display.sh` | `intel_flag`, `done`, `launches` |
| `uname -r`, installed kernels and headers | `running`, `images`, `headers` |
| `opts1` DescOwn, the buffer address, `tx_skb[].skb` of a descriptor | `own`, `addr`, `skb` |
| DescOwn and the address of a receive descriptor; `Rx_skbuff[]`, or page and page_offset | `own`, `slot` |
| `page_ref_count`; frames the stack has not freed | `refs`, `held` |
| the chip's tail and close pointers, TPPOLL | `tail`, `clo`, `poll` |
| `R8125_FLAG_DOWN`, the PENDING bits, the delayed works | `down`, `pending`, `work` |
| interrupt masks of a ring's vector and of the link's | `dataIntr`, `linkIntr` |
| `dabootstamp` of the entry in `G_SlpdKnownDAs`, its `entryvalue` | `known`, `stale` |
| a socket's `sendlist` and `reconns` | `socks[i].left`, `socks[i].tries` |

Abstractions.  A sed on one file is one step: it replaces the file by renaming.
`_permissions`, `_sleep`, `_branding` and `_hostdata` change nothing that another
part reads.  `_aspeed` names a package under `/home/$USER/assets` instead of
`/home/$USER/install/assets` (`drivers.sh:34`), so it never installs anything and is not an
action.  The WRX80 and WRX90 boards, and the two B650 boards, take the same branches and are one
board each.  The audio configuration files of `_mobofix` are left out.  In
`MountDrives` no lsblk name is part of another one: `${array[@]/$drive/}` removes
the text of the name from every entry, which matters from 27 sd disks on.  In
`MountPath` a path is what an answer comes down to after the leading slash and the
default are added; a path with a blank in it, which the unquoted `[ -d $mount ]`
cannot handle, is not considered.  In `HighPoint`, `_os_check` lets the machine pass, and
initialising the legacy disks (`highpoint.sh:90-97`) is part of `Create`.  The launch line
that the script writes names `~/install/functions/highpoint.sh`, where it is not, so
`Run` is the operator's doing and does not depend on that line.

In `IntelDisplay` a finished apt command is taken to have installed what it names, and sudo to
be given its password in the end: refused three times it leaves `motherboard` empty, and line 13
then takes a NUC13SB for another machine.  In `R8125Tx`
the stack is modelled by what it promises the driver: `start_xmit` of a queue is not
reentered, and a packet it is handed belongs to the driver until it is freed.  In `R8125`
`rtl8125_resume` succeeds: when `pci_enable_device` fails (20814-20818) it returns an error with
the interface as the suspend left it.  `SlpRegistration`
knows one directory agent, whose database ages only what the service agent no longer has;
`Refresh` is taken to come in time for the others.  The xid of a registration stands for the
client's choice.  `Send` waits for a free socket, where a `SLPDOutgoingConnect` that finds no
memory returns NULL and the message is dropped without a word; the directory agent refuses
nothing (`DaRecv`), as the one service agent has checked scopes and syntax before it sends; and
`Lapse` does not age the mortal ones among the services of the configuration file.

What the vendor's installers do is not in the scripts.  It was read from the packages under
`assets/drivers/hp*`: the driver's installer, not the RAID manager, brings
`/etc/init.d/hptdrv-monitor`, and it does so before it builds the module, which is loaded
from the next boot on.  `HpInstall` and `HpBuild` of `Master`, and `PlaceScript` and
`BuildDriver` of `HighPoint`, are the two steps: a power loss between them leaves the script
without the driver.

## Runs

| Run | Bounds | Shows |
|---|---|---|
| `calm` | 15 machines without a controller, 2 instances, 2 crashes, no failing download; fairness | `OrderKnown`, `Provisioned`; implements `Provisioning`; `EventuallyStopped` |
| `cards` | servers with one controller of each model, X299 boards with `iommu=off` anywhere on the line and WRX boards, no crash; fairness | `DriversBeforeMount`, `BootConfigReady`, `EventuallyStopped` |
| `hostile` | two shells, two controllers, Gnome and Vizgen orders, a desktop with a controller, 1 crash, 1 fault | `NoRepeatedArgs` |
| `drives` | 3 disks of 5 kinds, any root disk, any old file systems, 1 reboot, 1 closed terminal | `ConsentedOnly`, `FstabResolves`, `DistinctDefaults`, `FlagMeansDone` |
| `path` | 5 paths (legal, illegal, without a parent, illegal and without a parent), 4 nested calls | all invariants of `MountPath` |
| `highpoint` | 25 machines: desktops and servers, X299 or not, `iommu=off` in front or behind, 0 to 2 old arrays, one without a controller; 2 crashes, 1 fault; fairness | `ConsentToDestroy`, `HandsBack`, `BuiltAsAsked`, `NothingLost`, `EventuallyEnded` |
| `intel_display` | 2 terminals, 3 power failures, 3 steps after a reboot; fairness | `FlagMeansReady`, `NoReturn`, `Completes` |
| `r8125_tx` | 3 descriptors, packets of 1 or 2 descriptors, 2 packets, pointers that wrap at 6, both modes, watchdog, resets, shortages and changes of the link; fairness | all properties of `R8125Tx` but `SecondLook` |
| `r8125_rx` | 2 descriptors, 3 buffers, quota of 1, pointers that wrap at 4, both builds, damaged frames in the copying one; fairness | `ChipWritesLive`, `RefsExact`, `InStep`, `EveryFrameTaken`, `Refilled` |
| `r8125` | 2 operations of an administrator, 2 changes of the cable, failing allocations in open and the works; fairness | all properties of `R8125` |
| `slp_registration` | 2 services (one immortal), 2 sockets, 2 tries, 2 boots of the agent, 2 operations; fairness | `InSync`, `RegistrationArrives` |
| `stale_partition` | 3 disks, some with a name no case knows | a refused disk is formatted |

The `TypeOK` of every module holds in the same bounds; those of `Master`, `MountDrives`,
`MountPath`, `HighPoint`, `IntelDisplay`, `SlpRegistration`, `R8125` and `R8125Tx` are proved.  None is repeated in
the runs, and neither is `OneFlag` of `HighPoint`, which is proved as well.
The refinement of `Provisioning` is checked in `calm` and proved for all machines.

Why the bounds are enough.  Nothing counts instances beyond "another one", so two show every
interference.  Crashes only ever send a machine back to the first stage with the disk as it
is; two let a second run be interrupted after a first one.  With three disks there is one
before, one being handled and one after, and two of a kind besides a third.  Two old arrays
tell the loop that deletes them from a single deletion. The nesting of `_mount` keeps only
the path and the place to go on; four levels have every pair of an outer and an inner place.
A ring of three descriptors holds a packet that is being sent, one that is being filled and
the gap that stops the queue, and is run round so often that every pair of counters wraps;
the wrap at 6 stands for the one at 2^32, both multiples of the ring.  The receive ring has
two descriptors, so that there is one the driver is at and one the chip is at, runs round in
two and wraps in four; three buffers let memory run out with the ring half full or empty,
and a quota of one makes every poll that finds a frame come again.  (Three descriptors, six
for the wrap, satisfy the safety properties as well.)  Two operations have every pair of
`ring`, `mtu`, `close` or `suspend` after `open`, and the works come in between without
bound.  Two sockets let a registration and a deregistration, or two registrations, cross;
two boots of the agent let an advert and an acknowledgement of the first arrive in the
second.  Two terminals are what an interrupted first step can leave, and three steps after
`reboot` reach into the second step as far as the drivers.  The theorems below drop the
bounds for every safety property the runs check.

Deadlock is checked for `Master` and `HighPoint`: a finished machine may always be powered
off and on again.  `MountDrives`, `MountPath` and `IntelDisplay` stop when their script
ends; `R8125Tx` may have nothing to send, `R8125Rx` nothing to receive, `R8125` no operation
and no event left, and `SlpRegistration` nothing to register.  Their runs turn the check
off.

### Fairness

`EventuallyStopped` assumes `FairSpec`: scripts run on (`WF` of a step of each
instance); a launch line that a login has started runs; a requested reboot happens;
the operator logs in, and restarts a machine on which nothing runs and which is not
off.  All of it is what the scripts themselves tell the operator to do ("log back
in", "Press any key").  No fairness is assumed of logins on a further console, of
crashes, or of failing downloads.  Liveness holds in `calm` with two crashes, and in
`cards` because the driver's installer brings the init script that ends the loop of
driver reboots: its mutant, in which the script ends up elsewhere, reboots for ever.

`EventuallyEnded` assumes that `highpoint.sh` runs on, that its operator answers, boots the
machine and runs the script while it has something to do, and that a requested reboot
happens.  It is about undisturbed workflows: after a crash between `rm hp_flag` and
`touch hp_flag1` there is nothing left that would go on.

`Completes` of `IntelDisplay` assumes that a terminal runs on, that a requested reboot comes,
and that an operator who finds the workflow idle and unfinished starts it by hand; power
failures are bounded.  A terminal that reads the flag late can take the workflow back to its
first step; executions in which that happens again and again are left out (`ReadsLate`).

`R8125Tx`: a CPU in the driver goes on, a raised softirq runs, the chip serves its ring and a store
becomes visible (`WF`).  The reset waits for a moment in which neither `start_xmit` nor the poll
runs, which `napi_disable` and `synchronize_net` bring about: `SF`, of `Reinit` or `Shortage`, so
that a reset may find no memory for ever.  `QueueRestarts` takes, beside this, that the stack's
watchdog looks again (`WF` of `TxTimeout`), which it does not do without a carrier.  Nothing is
assumed of the link: the property speaks of executions in which the carrier does not stay off.  That
packets arrive is not assumed, and neither is that a doorbell is rung: `EventuallyFreed` speaks of
executions in which none is owed for ever (`Told`).

`NoWakeupLost` is the claim of the comment at `r8125_n.c:19701`: the transmitter, which stops the
queue and looks again, and the poll, which publishes `dirty_tx` and looks at the queue, do not
miss each other, and no reset is needed.  It holds where the poll's store is seen before its load
(`StoreSeen`; its mutant leaves out the second look).  The code has `smp_wmb` between the two,
which orders stores only, and without the assumption (`SecondLook`) the queue stays stopped:
`MCR8125Tx_lost_wakeup.cfg`.  Both leave out two ways in which a queue can stop for good without
a watchdog: `err_stop` takes no second look, and, where chip and driver share DescOwn, a packet
that the chip sends before `cur_tx` counts it is freed by no poll until another interrupt comes
(`Counted`).

`R8125Rx`: a frame that is begun ends, a pending interrupt is delivered, the poll goes on, a reset
that is asked for runs, the link comes back, and the stack frees what it holds (`WF`).  A
descriptor gets memory if there is some again and again (`SF` of `FillAlloc`), and a frame comes
that finds no descriptor (`FrameMissed`); no other frame is assumed to arrive.

`R8125`: the holder of the lock goes on, with `SF` because a call may wait for a poll or a packet
to end and another begins; a scheduled work gets the lock again and again, hence `SF`; interrupts
are delivered, a cabled PHY comes up.  The ESD work and the administrator are not fair.

`SlpRegistration`: the SA's main loop retries, adverts come again, and a registration that is
sent again and again gets through (`SF` of `DaRegisters`).  Nothing is assumed of
deregistrations, acknowledgements, or of either daemon's crashes.

## Findings

One run, `stale_partition`, ends in a violation on purpose: `$partition` survives from one disk
to the next.  `PROJECT.json`, `findings`, quotes the lines of the repository that the code does
not keep.  Fifteen further configurations are not runs of the project but reproduce a finding with
`tlc -config <cfg> <module>`:

| Configuration | Module, property | Shows |
|---|---|---|
| `MCMaster_lost_launch.cfg` | `MCMaster`, `Resumes` | the launch line of a server is deleted and then written (`drivers.sh:61-62`); a power loss in between ends the installation silently |
| `MCMaster_gnome.cfg` | `MCMaster`, `StopsForGood` | `_gnome` sets `ostype="Desktop"`, and "Stop autorun" looks for the desktop's file: the server starts again at every login.  (`ubuntu-dekstop` on the line above is misspelt as well.) |
| `MCMaster_two_cards.cfg` | `MCMaster`, `DriversBeforeMount` | the three HighPoint functions share one guard file |
| `MCMaster_cut_install.cfg` | `MCMaster`, `DriversBeforeMount` | a power loss between the init script and the driver: the next run takes the driver for installed, and the drives are handled without it |
| `MCIntelDisplay_late.cfg` | `MCIntelDisplay`, `ReadyAnyway` | a terminal that waits at its password prompt while another one removes `intel_flag` begins the first step anew, and leaves a launch line on a finished machine; one that waits until the flag is set runs the second step on the old kernel |
| `MCMountDrives_bios.cfg` | `MCMountDrives`, `RootSafe` | the system disk is recognised only by `/boot/efi` |
| `MCHighPoint_complete.cfg` | `MCHighPoint`, `CompleteMeansArray` | `highpoint.sh` reports success without looking at what `hptraidconf` did, and a second run in the same boot works with a driver that is not loaded |
| `MCR8125Tx_lso.cfg` | `MCR8125Tx`, `NeverOverwrites` | with the LSO patch of the 8125B a packet takes one descriptor more than `rtl8125_tx_slots_avail` asks for |
| `MCR8125Tx_lost_wakeup.cfg` | `MCR8125Tx`, `SecondLook` | poll and transmitter miss each other, as `smp_wmb` does not order the poll's store of `dirty_tx` before its load of the queue's state: the queue stays stopped |
| `MCR8125Tx_bounce.cfg` | `MCR8125Tx`, `ChipReadsLive` | a link that is back before its work runs restarts the chip at descriptor 0, with the driver's indexes elsewhere: packets in flight are freed |
| `MCR8125Tx_drop.cfg` | `MCR8125Tx`, `ChipReadsLive` | `rtl8125_link_down_patch` empties the ring beside a poll of it, which goes on with the index and count it has read |
| `MCR8125Rx_drop.cfg` | `MCR8125Rx`, `RefsExact` | with `ENABLE_PAGE_REUSE` a damaged frame's descriptor goes back without being counted in `dirty_rx`, and the next frame's page is put over its own |
| `MCR8125Rx_init.cfg` | `MCR8125Rx`, `ChipWritesLive` | the reset task does not look at what `rtl8125_init_ring` returns, and the chip is given descriptors without a buffer of the ring |
| `MCR8125Rx_bounce.cfg` | `MCR8125Rx`, `InStep` | a link that is back before its work runs restarts the chip at descriptor 0 with the driver elsewhere |
| `MCR8125Tx_odd.cfg` | `MCR8125Tx`, `ChipReadsLive` | with a ring size that does not divide 2^32, which `ethtool -G` accepts, the entry jumps when `cur_tx` wraps, and a packet is freed under the chip |
| `MCR8125.cfg` with `"mtu"` in `MayFail` | `MCR8125`, `LockReleased` | a failed `change_mtu` leaves NAPI disabled; the next operation disables it again and waits for ever with the rtnl lock.  `"ring"` with `MaxAdmin = 3` does the same |

Read in the code, and without a configuration of their own: `slpd_main.c:227` does not wait for the deregistrations of a SIGTERM, as the
model of `Sigterm` says; `slpd_process.c:1153` asks for connected sockets where there are none;
a poll that damaged frames have used up takes itself for finished (`r8125_n.c:20418`; `spent`);
interrupt masks of `HwCurrIsrVer` 2 and 3 lack RxDescUnavail, without which an exhausted ring is
not filled again (`Rdu = FALSE` violates `Refilled`);
`SLPDDatabaseAge` closes the multicast group of a type that other registrations still need; no
exit status of apt is looked at in `intel_display.sh`.

Met while modelling, and kept out of the passing runs by the machines they use:

- On a desktop `drivers.sh:64` removes `/etc/profile/.d/master.sh`, a path that does
  not exist, so that a second launch line is added and the login after a driver
  reboot starts two instances.
- On a 24.04 desktop with a WRX or ProArt board `fixes.sh:32` or `41` moves `splash`
  away from the quote, and the simpledrm fix of line 55 inserts nothing.
- The patterns that drop `iommu=off` on an X299 board do not find it everywhere on the line:
  ` iommu=off` needs a word in front of it, and the second pattern of `_hp7505` a word behind it
  (`drivers.sh:57` ends in a blank), so that it survives as the only word.  `_hp640L`,
  `_hp3720c` and `highpoint.sh:26` lack the second pattern and keep an `iommu=off` that is the
  first word.  `BootConfigReady` and `BuiltAsAsked` ask for what the patterns can find.
- A crash between the installers and the iommu fix of a HighPoint function is never
  repaired: the next run finds the init script and skips the block.
- `mount.sh:118` names the partition of an hpt disk `$drive"1"`, and numbers hpt
  disks with the counter of nvme disks under the label of the raid ones.
- A crash between lines 67 and 68, or 17 and 29, of `highpoint.sh` leaves a machine on which
  the script does nothing any more; a crash after line 61 leaves a first answer in the type
  file beside the second.
- `highpoint.sh:39` announces automatic reboots, but the launch line of lines 32 and 36
  names a path where the script is not; on a server it has replaced that of `master.sh`, which
  after an answer of N stays lost.  Lines 69 and 120 say `reboot` without `sudo`.
- The two addresses of `highpoint.sh:19-20` name `assets/drivers/`; the driver package is
  under `assets/drivers/hp7505/` and the manager is not in the repository.  The model lets
  the downloads succeed or fail.
- `highpoint.sh:34` has the same wrong path as `drivers.sh:64`: a desktop keeps both lines.
- Answering Y again for a disk that an interrupted pass has formatted leaves the line of
  its old UUID in fstab, without `nofail`.

## Theorems

All are proved without bounds on machines, instances, disks, paths, descriptors, crashes
or faults, except as stated.

| Theorem | Assumption | Argument |
|---|---|---|
| `MasterProofs!Typing` | - | each action keeps each variable's type |
| `MasterProofs!ArgumentsOnce` | - | `KnownLines`: the kernel line is one of a few, since the first insertion makes every later pattern fail |
| `MasterProofs!KnownOrder` | `NoFaults`: `OneLaunch` (one session per boot, no desktop with a controller), no failing download | `OrderInv`: at most one number on file, and the data are empty when the fetch begins; on `SoloInv`: no second instance is ever started |
| `MasterProofs!DriversFirst` | `NoFaults`, `OneCard`; except for a machine that was cut off between the init script and the driver (`CutShort`) | `DriverInv`: unless cut short, the init script implies the driver as soon as no instance is between the two, and a run that finds the script runs in a boot that has it loaded |
| `MasterProofs!Refinement` | `Undisturbed`: `OneLaunch`, no server with Gnome, no crash on a machine with a controller | `ArmInv`: a launch line is missing only in the one instance that is about to write it |
| `MasterProofs!NextRunStarts`, `StaysStopped` | `Undisturbed` | `ArmInv` |
| `MasterProofs!FullyProvisioned` | `Clean`: `Undisturbed`, no failing download | `ProvInv`: the effects of every stage behind an instance are on disk |
| `MasterProofs!BootReady` | `Bootable`: `Clean`, no 24.04 desktop whose board takes an argument of its own | `BootInv`: the kernel line is the imaged one or already has every argument, a second pass of the edits takes no word away, and an init script without the edit of `iommu=off` exists only between commands of one instance |
| `MountDrivesProofs!Consent` | no disk of an unknown kind | `$partition` is the disk in hand, or nothing |
| `MountDrivesProofs!DistinctNames` | known kinds, no hpt | counters only grow past what was given out; a single disk of a series carries no number |
| `MountDrivesProofs!Resolves`, `FlagIsTrue` | known kinds, no hpt, a careful operator | each fstab line belongs to the disk that was being formatted |
| `HighPointProofs!OneFlagAtATime`, `Consent`, `HandedBack` | - | `FlowInv`: what the flags, the type file and the launch lines are at each stage, whatever was interrupted before |
| `HighPointProofs!AsAsked`, `AlwaysResumable` | `Patient`: no answer while the machine goes down; the properties speak of undisturbed workflows | `CalmInv`: between two runs the machine is either `Ready` (driver installed, nothing answered) or `Deleted` (no arrays, one type on file) |
| `IntelDisplayProofs!ReadyWhenFlagged`, `StaysGone` | at most six steps of a script after the reboot it asked for; the properties speak of executions in which no terminal has read the flag late | `IntelInv`: the terminals of one boot are all in the first step or all in the second, namely the one the login was for (`OnePart`); what lies behind a terminal of the second step is done (`Behind`); a script that runs on after the first reboot is killed before it has made the seven steps to the end (`RunsOn`) |
| `SlpProofs!WireIsOpen` | - | what is on the wire belongs to a socket that is open, or to none |
| `SlpProofs!RegistrationsInSync` | `DistinctXids`: no two services share an xid | a registration a socket carries is safe only while no acknowledgement of it, possibly from a database that is lost since, waits for that socket (`Good`); one the agent has is safe only while no deregistration of it is on its way (`NoDereg`) |
| `R8125RxProofs!ChipSafe`, `ReferencesExact` | `Undamaged`: no frame damaged or dropped in the build that shares pages, the reset finds memory | `RingInv`: the descriptors from `dirty_rx` to the loop are exactly those without a buffer (`GapEmpty`, `RestFilled`), so that a recycled half never covers another; at most one slot to a page, none on a half the stack holds, and the references are the sum of those three users (`Counted`).  Counters wrap at any multiple of the ring |
| `R8125Proofs!TypeCorrect` | - | each call keeps each variable's type, and leaves a tail of its operation |
| `R8125Proofs!RingsOutliveUse`, `RebuildsQuietly`, `DownStaysQuiet` | `KeepsRings`: the allocation of new rings in `set_ringparam` does not fail | `LifeInv`: every call the operation has left finds what it needs (`Safe`: rings there, poll off, transmitter stopped, carrier off) either now, or by a call before it that no call in between undoes (`Before`, `Ensured`), and what begins beside the operation cannot take it away; which calls are left, and what must then still be true of the interface (`Shape`) |
| `R8125RxProofs!FramesInOrder` | `Undamaged`, and `~Bounce`: link work does not start a chip anew that is running | `OrderInv`: the frames lie in the n descriptors from the loop on and the chip is at the one behind them (`Frames`), for some n up to the size of the ring; nothing happens to a new ring before the link is back (`Waits`) |
| `R8125TxProofs!TypeCorrect` | - | each action keeps each variable's type |
| `R8125TxProofs!ReadsLive`, `FillsEmpty` | `Fits`: the size of the ring divides 2^32, no LSO patch; `~Bounce`, `~Drop` | `TxInv`: there are positions, counted since the last reset and never wrapping, for what the transmitter saw of the poll, the poll, the chip, the tail pointer and `cur_tx`, that agree with all the counters, pointers and `tx_left`, and are in order within one round of the ring (`Positions`); what lies between the poll and the end of what is filled is live (`Lives`), the rest is empty but for the fragments in hand (`Empties`), and the chip owns what is filled and not sent (`Owned`); while the chip is off it is at its first descriptor and nothing moves (`Dark`) |
| `MountDrivesProofs!LegalDirectory`, `ConfirmedReuse` | - | the invariant speaks of the path at every place an outer activation can go on |

The properties are not inductive as they stand.  `OrderKnown`, for one, does not say why no
second instance clears the data; `SoloInv` adds that a login finds nothing running, as the machine
is off only with no process and no pending launch, and that at most one launch line is started.  Each assumption is needed, and the violating runs and
the list above show what happens without it: without `OneLaunch` two instances
interleave, without `NoFaults` a garbled or partial order is kept, without `OneCard`
a driver is skipped, without `Undisturbed` the launch line is lost or kept.

The image is assumed to carry exactly one launch line.  It is not part of the
repository; `master.sh:63-68` removes the line on every machine and `drivers.sh:64`
tries to remove it before adding one, so that one line is what the code takes
for granted.

`Patient` is needed because `highpoint.sh:69` is not followed by an exit: the prompt comes
back while the machine goes down, and an answer appends a second type, or writes the
completion flag, before the array exists.

Without `Bootable` a 24.04 desktop on a Threadripper board ends its kernel line with the
iommu group, so that the pattern `splash"` of the last edit finds nothing.  The machines of `calm` and
`cards` are all `Bootable`.

Only model-checked: `EventuallyStopped`, `EventuallyEnded` and the other liveness properties,
because liveness is out of the prover's reach.

`DriversFirst` names its exception because the code has it: `MCMaster_cut_install.cfg`.  A
terminal closed between the two commands does the same.

Without `Undamaged` the theorems of `R8125RxProofs` are false: `MCR8125Rx_drop.cfg` and
`MCR8125Rx_init.cfg` are the counterexamples.  `MCR8125Rx_bounce.cfg` is the one for
`FramesInOrder` without `~Bounce`.

`Fits` has two halves, and each is needed: `MCR8125Tx_odd.cfg` frees a packet under the chip
in a ring whose size does not divide the modulus of `cur_tx`, and `MCR8125Tx_lso.cfg`
overwrites a descriptor when the LSO patch takes one more than was counted.
`MCR8125Tx_bounce.cfg` and `MCR8125Tx_drop.cfg` show the same for `~Bounce` and `~Drop`.  The driver's own
size, 1024, fits.  The counters alone would not be inductive: a full ring and an empty one have
the same entries, and a `dirty_tx` seen late is not told from one a round ahead.

`KeepsRings` is needed because `rtl8125_set_ringparam` closes the interface before it looks at
what open returns: after a failure the interface counts as running and has no rings, and a
suspend and a resume schedule its works again.  With `"ring"` in `MayFail` and four operations
TLC finds the ESD work clearing rings that are freed.  Every other failure is covered:
whatever open, `change_mtu` or `rtl8125_init_ring` in a work does without memory, the three theorems
hold.

## Not modelled, and why

The implementation lines of the repository are almost all C: about 78,000 lines under
`assets/`, of which the map covers the part that has behaviour over time.  What it leaves out
is of four kinds.

- *Generated or tabular code.*  The lexers and parsers of OpenSLP (`libslpattr.c`,
  `slp_attr_l.c`, `slp_filter_l.c`, `slp_attr_y.c`, ...) and the register and PHY tables of
  `r8125_n.c` (thousands of writes to fixed addresses, per chip) have no control to speak
  of; a model of them would repeat them.
- *Parsing, formatting and comparison of strings.*  `slpd_predicate.c`, `libslp_network.c`,
  the message encoders and decoders, attribute lists.  Their correctness is about data, not
  about the order of events, and is a matter of tests.
- *The same pattern once more.*  PTP and fragments in the receive ring of r8125, DASH,
  EEPROM and the ethtool statistics; the client library of OpenSLP, whose calls send one
  request and wait for its answer; SLPv1 and the TCP branches of `slpd_outgoing.c`, which no
  call of `SLPDOutgoingConnect` reaches.
- *What the operating system or a vendor does.*  The storage manager, the MediaTek package,
  the power-limit script and the benchmarks are started by one command each.

Of the scripts, `standalone_mount.sh` repeats the loop of `mount.sh` without counting pass and
flag; `vizgen_automation.sh` is a single pass on first boot, without a prompt or a restart;
`review.sh`, `test.sh`, `clean.sh`, `hostname.sh` and `tidy.sh` report or remove files;
`_unmount` is marked `#Broken` in the source and called by nothing.

What would come next: `standalone_mount.sh` as a second specification over the actions of
`MountDrives`; an abstract "workflow that resumes", which `HighPoint` and `IntelDisplay`
implement while undisturbed; several directory agents in `SlpRegistration`.

## Running

    tlc -workers 2 -config MCMaster_calm.cfg MCMaster
    tlapm MasterProofs.tla
