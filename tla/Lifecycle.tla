------------------------------ MODULE Lifecycle ------------------------------
(***************************************************************************)
(* The life of the daemon and what it does to the machine: boot (settings, *)
(* the bootstrap script that caps every NIC for native XDP and keeps the   *)
(* original values in files, migration, XDP attach), the post-up phase,    *)
(* the two ways down (a signal; a tun device that fails) and the processes *)
(* killed in between, over several boots on the same machine.              *)
(*                                                                         *)
(* Three goroutines share the machine: main, the one waiting for a signal  *)
(* ("sig") and the one reading upChan ("up").  The last two both run       *)
(* GracefullyShutDown, and main goes on while they do.                     *)
(***************************************************************************)
EXTENDS ConfigWatch

CONSTANTS
    NICs,          \* the real NICs
    Virtio,        \* those driven by virtio_net
    OriginalMTU,   \* each NIC's MTU before the first boot
    PageSize,      \* getconf PAGESIZE
    XDPLimit,      \* virtioXDPLimit, 3506
    MaxBoots       \* bound: boots in one behaviour

ASSUME LifecycleAssumption ==
    /\ Virtio \subseteq NICs
    /\ OriginalMTU \in [NICs -> Nat \ {0}]
    /\ PageSize \in Nat /\ XDPLimit \in Nat /\ XDPLimit < PageSize
    /\ MaxBoots \in Nat \ {0}

Stoppers == {"sig", "up"}
NoMTU == 0             \* there is no <nic>.wan_mtu.orig
Absent == "absent"     \* there is no <nic>.offloads.orig
Empty == "empty"       \* it was created and not written yet

VARIABLES
    main,       \* where main is; "off" when no process runs
    stage,      \* where the bootstrap script is with each NIC
    stop,       \* where each stopping goroutine is
    todo,       \* files each of them globbed and has not restored from
    half,       \* restored from, file not removed yet
    mtu, mtuFile,    \* the NICs' MTU and <nic>.wan_mtu.orig
    gro, groFile,    \* the NICs' offloads and <nic>.offloads.orig
    native,     \* NICs with our program attached in native mode
    loaders,    \* xdpLoadersRef is set
    tables, recorded,  \* migration 1: its transaction, and its record
    rules,      \* copies of the iptables rules installed
    exit,       \* how the last process ended
    boots,
    windows     \* the unguarded moments something happened in

machine == <<mtu, mtuFile, gro, groFile, rules>>
disk == <<tables, recorded>>
vars == <<main, stage, stop, todo, half, machine, native, loaders, disk,
          exit, boots, windows, wvars>>

Stages == {"todo", "fill", "disable", "mtu", "page", "cap", "done"}

TypeOK ==
    /\ main \in {"off", "script", "run", "record", "attach", "publish",
                 "open", "serve", "cancelled", "return"}
    /\ stage \in [NICs -> Stages]
    /\ stop \in [Stoppers -> {"wait", "postup", "watch", "predown", "db",
                              "detach", "mtu", "gro"}]
    /\ todo \in [Stoppers -> SUBSET NICs] /\ half \in [Stoppers -> SUBSET NICs]
    /\ mtu \in [NICs -> Nat] /\ mtuFile \in [NICs -> Nat]
    /\ gro \in [NICs -> {"on", "off"}]
    /\ groFile \in [NICs -> {"on", "off", Absent, Empty}]
    /\ native \subseteq NICs /\ loaders \in BOOLEAN
    /\ tables \in BOOLEAN /\ recorded \in BOOLEAN
    /\ rules \in 0..MaxBoots /\ boots \in 0..MaxBoots
    /\ exit \in {"none", "sig", "up", "return", "died"}
    /\ windows \subseteq {"signalled in boot", "killed while saving"}
    /\ ConfigTypeOK

Init ==
    /\ main = "off"
    /\ stage = [n \in NICs |-> "todo"]
    /\ stop = [g \in Stoppers |-> "wait"]
    /\ todo = [g \in Stoppers |-> {}] /\ half = [g \in Stoppers |-> {}]
    /\ mtu = OriginalMTU /\ mtuFile = [n \in NICs |-> NoMTU]
    /\ gro = [n \in NICs |-> "on"] /\ groFile = [n \in NICs |-> Absent]
    /\ native = {} /\ loaders = FALSE
    /\ tables = FALSE /\ recorded = FALSE
    /\ rules = 0 /\ boots = 0
    /\ exit = "none" /\ windows = {}
    /\ ConfigInit

-----------------------------------------------------------------------------
(* The end of a process, however it comes: the links of its XDP programs   *)
(* go with its descriptors, everything else stays on the machine.          *)

\* The script holds the original nowhere but in a value it has not written,
\* or has lowered the MTU half way.
Saving(n) ==
    \/ stage[n] = "fill"
    \/ stage[n] = "cap" /\ mtu[n] # mtuFile[n]

End(how) ==
    /\ main' = "off"
    /\ stage' = [n \in NICs |-> "todo"]
    /\ stop' = [g \in Stoppers |-> "wait"]
    /\ todo' = [g \in Stoppers |-> {}] /\ half' = [g \in Stoppers |-> {}]
    /\ native' = {} /\ loaders' = FALSE
    /\ exit' = how
    /\ windows' = windows \cup
         (IF \E n \in NICs : Saving(n) THEN {"killed while saving"} ELSE {})
    /\ StopWatch
    /\ UNCHANGED <<machine, disk, boots, config>>

\* SIGKILL, or one of the logger.Fatal calls: nothing is restored.
Die == main # "off" /\ End("died")

-----------------------------------------------------------------------------
(* Boot.                                                                   *)

\* Nothing is claimed of a machine after an unguarded moment: a behaviour
\* ends with the process that met one.
CanBoot == main = "off" /\ boots < MaxBoots /\ windows = {}

\* main: the signal goroutine first, then config.Load.
Boot ==
    /\ CanBoot
    /\ boots' = boots + 1
    /\ main' = "script"
    /\ exit' = "none"
    /\ Load
    /\ UNCHANGED <<stage, stop, todo, half, machine, native, loaders, disk,
                   windows>>

\* No file, or one without the settings main insists on.
LoadFails ==
    /\ CanBoot
    /\ ~Readable
    /\ boots' = boots + 1
    /\ exit' = "died"
    /\ UNCHANGED <<main, stage, stop, todo, half, machine, native, loaders,
                   disk, windows, wvars>>

\* bootstrap/004 takes the NICs one at a time.
Script(n, from, to) ==
    /\ main = "script"
    /\ stage[n] = from
    /\ \A m \in NICs \ {n} : stage[m] \in {"todo", "done"}
    /\ stage' = [stage EXCEPT ![n] = to]
    /\ UNCHANGED <<main, stop, todo, half, native, loaders, rules, disk, exit,
                   boots, windows, wvars>>

\* The offloads file is created unless it is there from an earlier boot ...
SaveOffloads(n) ==
    /\ groFile' = [groFile EXCEPT ![n] = IF @ = Absent THEN Empty ELSE @]
    /\ Script(n, "todo", IF groFile[n] = Absent THEN "fill" ELSE "disable")
    /\ UNCHANGED <<mtu, mtuFile, gro>>

\* ... and ethtool -k is written to it,
FillOffloads(n) ==
    /\ Script(n, "fill", "disable")
    /\ groFile' = [groFile EXCEPT ![n] = gro[n]]
    /\ UNCHANGED <<mtu, mtuFile, gro>>

\* then the offloads go off; only virtio_net goes on to the MTU.
DisableOffloads(n) ==
    /\ Script(n, "disable", IF n \in Virtio THEN "mtu" ELSE "done")
    /\ gro' = [gro EXCEPT ![n] = "off"]
    /\ UNCHANGED <<mtu, mtuFile, groFile>>

\* Mutant: the MTU is saved whether or not it is scaled down.
SaveAlways(n) ==
    /\ Script(n, "mtu", IF mtu[n] > XDPLimit THEN "cap" ELSE "done")
    /\ mtuFile' = [mtuFile EXCEPT ![n] = mtu[n]]
    /\ UNCHANGED <<mtu, gro, groFile>>

\* The MTU is saved only when it is about to be scaled down.
SaveMTU(n) ==
    /\ Script(n, "mtu", CASE mtu[n] > PageSize -> "page"
                          [] mtu[n] <= PageSize /\ mtu[n] > XDPLimit -> "cap"
                          [] OTHER -> "done")
    /\ mtuFile' = [mtuFile EXCEPT ![n] = IF mtu[n] > XDPLimit THEN mtu[n]
                                         ELSE @]
    /\ UNCHANGED <<mtu, gro, groFile>>

\* One `ip link set` to the page size, a second one to the limit.
ScaleToPage(n) ==
    /\ Script(n, "page", "cap")
    /\ mtu' = [mtu EXCEPT ![n] = PageSize]
    /\ UNCHANGED <<mtuFile, gro, groFile>>

ScaleToLimit(n) ==
    /\ Script(n, "cap", "done")
    /\ mtu' = [mtu EXCEPT ![n] = XDPLimit]
    /\ UNCHANGED <<mtuFile, gro, groFile>>

PinNIC(n) ==
    \/ SaveOffloads(n) \/ FillOffloads(n) \/ DisableOffloads(n)
    \/ SaveMTU(n) \/ ScaleToPage(n) \/ ScaleToLimit(n)

\* GracefullyShutDown's first statement closes the database.
DbOpen == \A g \in Stoppers : stop[g] \in {"wait", "postup", "watch",
                                           "predown", "db"}

MainStep(from, to) ==
    /\ main = from
    /\ main' = to
    /\ UNCHANGED <<stage, stop, todo, half, machine, exit, boots, windows,
                   wvars>>

\* Mutant: the migration is marked applied before it runs.
MarkThenRun ==
    /\ \A n \in NICs : stage[n] = "done"
    /\ DbOpen
    /\ MainStep("script", IF recorded THEN "attach" ELSE "run")
    /\ recorded' = TRUE
    /\ UNCHANGED <<native, loaders, tables>>

\* The script has ended; Invoke asks whether the migration is recorded,
CheckMigration ==
    /\ \A n \in NICs : stage[n] = "done"
    /\ DbOpen
    /\ MainStep("script", IF recorded THEN "attach" ELSE "run")
    /\ UNCHANGED <<native, loaders, disk>>

\* runs it in a transaction of its own
RunMigration ==
    /\ DbOpen
    /\ MainStep("run", "record")
    /\ tables' = TRUE
    /\ UNCHANGED <<native, loaders, recorded>>

\* and records it in a second one.
RecordMigration ==
    /\ DbOpen
    /\ MainStep("record", "attach")
    /\ recorded' = TRUE
    /\ UNCHANGED <<native, loaders, tables>>

\* virtio_net takes a program in native mode only up to the limit.
NativeAllowed(n) == n \in Virtio => mtu[n] <= XDPLimit

\* LoadMultiNIC: native where the driver lets it, else generic or skipped.
Attach ==
    /\ MainStep("attach", "publish")
    /\ native' \in SUBSET {n \in NICs : NativeAllowed(n)}
    /\ UNCHANGED <<loaders, disk>>

\* run stores the loaders where GracefullyShutDown finds them, then opens
\* the connections and the listener.
Publish ==
    /\ MainStep("publish", "open")
    /\ loaders' = TRUE
    /\ UNCHANGED <<native, disk>>

-----------------------------------------------------------------------------
(* Up, and what follows a failed tun device.                               *)

\* upChan <- true, received by the goroutine that runs RunPostUp.
Up ==
    /\ main = "open" /\ stop["up"] = "wait"
    /\ main' = "serve"
    /\ stop' = [stop EXCEPT !["up"] = "postup"]
    /\ UNCHANGED <<stage, todo, half, machine, native, loaders, disk, exit,
                   boots, windows, wvars>>

\* RunPostUp: the script inserts the rules, whatever is installed already;
PostUp ==
    /\ stop["up"] = "postup"
    /\ rules' = rules + 1
    /\ stop' = [stop EXCEPT !["up"] = "watch"]
    /\ UNCHANGED <<main, stage, todo, half, mtu, mtuFile, gro, groFile, native,
                   loaders, disk, exit, boots, windows, wvars>>

\* then the management service and the configuration watch start.
PostUpWatch ==
    /\ stop["up"] = "watch"
    /\ stop' = [stop EXCEPT !["up"] = "wait"]
    /\ StartWatch
    /\ UNCHANGED <<main, stage, todo, half, machine, native, loaders, disk,
                   exit, boots, windows>>

\* A tun read fails: the context is cancelled.
TunFails ==
    /\ MainStep("serve", "cancelled")
    /\ UNCHANGED <<native, loaders, disk>>

\* upChan <- false: the receiver goes straight to GracefullyShutDown.
Down ==
    /\ main = "cancelled" /\ stop["up"] = "wait"
    /\ main' = "return"
    /\ stop' = [stop EXCEPT !["up"] = "db"]
    /\ UNCHANGED <<stage, todo, half, machine, native, loaders, disk, exit,
                   boots, windows, wvars>>

\* run returns, its deferred Close calls with it, and so does main: the
\* process ends even if GracefullyShutDown is not through.
Return == main = "return" /\ End("return")

-----------------------------------------------------------------------------
(* The ways down.                                                          *)

BootDone ==
    /\ main \in {"serve", "cancelled", "return"}
    /\ stop["up"] \notin {"postup", "watch"}

Signal ==
    /\ main # "off" /\ stop["sig"] = "wait"
    /\ stop' = [stop EXCEPT !["sig"] = "predown"]
    /\ windows' = windows \cup (IF BootDone THEN {} ELSE {"signalled in boot"})
    /\ UNCHANGED <<main, stage, todo, half, machine, native, loaders, disk,
                   exit, boots, wvars>>

\* Mutant: predown deletes one copy of the rules.
DeleteOnce ==
    /\ stop["sig"] = "predown"
    /\ rules' = IF rules = 0 THEN 0 ELSE rules - 1
    /\ stop' = [stop EXCEPT !["sig"] = "db"]
    /\ UNCHANGED <<main, stage, todo, half, mtu, mtuFile, gro, groFile, native,
                   loaders, disk, exit, boots, windows, wvars>>

\* RunPreDown: the script deletes the rules until none is left.
PreDown ==
    /\ stop["sig"] = "predown"
    /\ rules' = 0
    /\ stop' = [stop EXCEPT !["sig"] = "db"]
    /\ UNCHANGED <<main, stage, todo, half, mtu, mtuFile, gro, groFile, native,
                   loaders, disk, exit, boots, windows, wvars>>

StopStep(g, from, to) ==
    /\ stop[g] = from
    /\ stop' = [stop EXCEPT ![g] = to]
    /\ UNCHANGED <<main, stage, rules, loaders, disk, exit, boots, windows,
                   wvars>>

\* GracefullyShutDown: the database first,
CloseConnection(g) ==
    /\ StopStep(g, "db", "detach")
    /\ UNCHANGED <<todo, half, mtu, mtuFile, gro, groFile, native>>

\* then every loader it knows of; restoreWanMTU globs its files.
Detach(g) ==
    /\ StopStep(g, "detach", "mtu")
    /\ native' = IF loaders THEN {} ELSE native
    /\ todo' = [todo EXCEPT ![g] = {n \in NICs : mtuFile[n] # NoMTU}]
    /\ UNCHANGED <<half, mtu, mtuFile, gro, groFile>>

\* The kernel's answer to LinkSetMTU: virtio_net refuses to leave the limit
\* while a native program is attached, and the error is only logged.
LinkSetMTU(n, value) ==
    IF n \in native \cap Virtio /\ value > XDPLimit THEN mtu[n] ELSE value

\* One file of the loop: skipped if it cannot be read any more,
RestoreMTU(g, n) ==
    /\ n \in todo[g] /\ half[g] = {}
    /\ StopStep(g, "mtu", "mtu")
    /\ todo' = [todo EXCEPT ![g] = @ \ {n}]
    /\ half' = [half EXCEPT ![g] = IF mtuFile[n] = NoMTU THEN {} ELSE {n}]
    /\ mtu' = [mtu EXCEPT ![n] = IF mtuFile[n] = NoMTU THEN @
                                 ELSE LinkSetMTU(n, mtuFile[n])]
    /\ UNCHANGED <<mtuFile, gro, groFile, native>>

\* and removed whatever LinkSetMTU said.
RemoveMTUFile(g) ==
    /\ half[g] # {}
    /\ StopStep(g, "mtu", "mtu")
    /\ mtuFile' = [n \in NICs |-> IF n \in half[g] THEN NoMTU ELSE mtuFile[n]]
    /\ half' = [half EXCEPT ![g] = {}]
    /\ UNCHANGED <<todo, mtu, gro, groFile, native>>

\* restoreWanOffloads globs its files.
GlobOffloads(g) ==
    /\ todo[g] = {} /\ half[g] = {}
    /\ StopStep(g, "mtu", "gro")
    /\ todo' = [todo EXCEPT ![g] = {n \in NICs : groFile[n] # Absent}]
    /\ UNCHANGED <<half, mtu, mtuFile, gro, groFile, native>>

\* A file with no line to apply restores nothing.
RestoreOffloads(g, n) ==
    /\ n \in todo[g] /\ half[g] = {}
    /\ StopStep(g, "gro", "gro")
    /\ todo' = [todo EXCEPT ![g] = @ \ {n}]
    /\ half' = [half EXCEPT ![g] = IF groFile[n] = Absent THEN {} ELSE {n}]
    /\ gro' = [gro EXCEPT ![n] = IF groFile[n] \in {"on", "off"} THEN groFile[n]
                                 ELSE @]
    /\ UNCHANGED <<mtu, mtuFile, groFile, native>>

RemoveOffloadsFile(g) ==
    /\ half[g] # {}
    /\ StopStep(g, "gro", "gro")
    /\ groFile' = [n \in NICs |-> IF n \in half[g] THEN Absent ELSE groFile[n]]
    /\ half' = [half EXCEPT ![g] = {}]
    /\ UNCHANGED <<todo, mtu, mtuFile, gro, native>>

\* os.Exit(0).
Exit(g) ==
    /\ stop[g] = "gro" /\ todo[g] = {} /\ half[g] = {}
    /\ End(g)

ShutDown(g) ==
    \/ CloseConnection(g) \/ Detach(g) \/ GlobOffloads(g)
    \/ RemoveMTUFile(g) \/ RemoveOffloadsFile(g) \/ Exit(g)
    \/ \E n \in NICs : RestoreMTU(g, n) \/ RestoreOffloads(g, n)

-----------------------------------------------------------------------------
\* The watcher, and edits of the file while a process runs, go on beside
\* all of this.
Beside(A) ==
    /\ main # "off"
    /\ A
    /\ UNCHANGED <<main, stage, stop, todo, half, machine, native, loaders,
                   disk, exit, boots, windows>>

Next ==
    \/ Boot \/ LoadFails \/ Die
    \/ \E n \in NICs : PinNIC(n)
    \/ CheckMigration \/ RunMigration \/ RecordMigration
    \/ Attach \/ Publish \/ Up \/ PostUp \/ PostUpWatch
    \/ TunFails \/ Down \/ Return
    \/ Signal \/ PreDown
    \/ \E g \in Stoppers : ShutDown(g)
    \/ Beside(Edit) \/ Beside(WatchStep)

\* The watching goroutine is scheduled by the Go runtime and waits for nobody.
Spec ==
    /\ Init /\ [][Next]_vars
    /\ WF_vars(Beside(WatchStep))

-----------------------------------------------------------------------------
\* The original MTU and offloads of every NIC are on the device or in its
\* file at every moment of every boot, however often the process is killed
\* (pin_nic's guards, restoreWanMTU, restoreWanOffloads), unless it was
\* signalled before it was up or killed between two commands of the save.
OriginalsKept ==
    windows = {} =>
        \A n \in NICs :
            /\ OriginalMTU[n] \in {mtu[n], mtuFile[n]}
            /\ "on" \in {gro[n], groFile[n]}

Restored(n) ==
    /\ mtu[n] = OriginalMTU[n] /\ mtuFile[n] = NoMTU
    /\ gro[n] = "on" /\ groFile[n] = Absent

\* A process that ends through GracefullyShutDown leaves every NIC as it was
\* before the first boot, and one stopped by a signal also leaves no
\* iptables rule, those of killed predecessors included.
CleanStop ==
    windows = {} =>
        /\ exit \in Stoppers => \A n \in NICs : Restored(n)
        /\ exit = "sig" => rules = 0

\* A migration is recorded only when its work is committed, and the server
\* never serves without it, whatever killed the boots before (Invoke).
MigratedBeforeServing ==
    /\ recorded => tables
    /\ main \in {"attach", "publish", "open", "serve"} => recorded
=============================================================================
