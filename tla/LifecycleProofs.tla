--------------------------- MODULE LifecycleProofs ---------------------------
(***************************************************************************)
(* What the daemon leaves on the machine and on the disk, for any number   *)
(* of NICs, drivers, original MTUs, boots and kills.                       *)
(***************************************************************************)
EXTENDS Lifecycle, TLAPS

\* The functions have their domains and ranges.
Shape ==
    /\ stage \in [NICs -> Stages]
    /\ stop \in [Stoppers -> {"wait", "postup", "watch", "predown", "db", "detach", "mtu", "gro"}]
    /\ todo \in [Stoppers -> SUBSET NICs] /\ half \in [Stoppers -> SUBSET NICs]
    /\ mtu \in [NICs -> Nat] /\ mtuFile \in [NICs -> Nat]
    /\ gro \in [NICs -> {"on", "off"}] /\ groFile \in [NICs -> {"on", "off", Absent, Empty}]

\* A migration between its two transactions, and after them.
MigrationInv ==
    /\ recorded => tables
    /\ main = "record" => tables
    /\ main \in {"attach", "publish", "open", "serve"} => recorded

-----------------------------------------------------------------------------
(***************************************************************************)
(* What holds until an unguarded moment.                                   *)
(***************************************************************************)

\* Nobody stops anything before the server is up, the script is through by then, and
\* the loaders are stored before anybody can look for them.
Threads ==
    /\ main \notin {"serve", "cancelled", "return"} => \A g \in Stoppers : stop[g] = "wait"
    /\ stop["sig"] # "wait" => stop["up"] \notin {"postup", "watch"}
    /\ main \notin {"off", "script"} => \A n \in NICs : stage[n] = "done"
    /\ main \in {"open", "serve", "cancelled", "return"} => loaders

\* The MTU is the original, or the original is in the file and the MTU on its way down.
MtuKept(n) ==
    /\ mtuFile[n] \in {NoMTU, OriginalMTU[n]}
    /\ mtu[n] # OriginalMTU[n] => mtuFile[n] = OriginalMTU[n]
    /\ mtu[n] \in {OriginalMTU[n], XDPLimit} \/ stage[n] = "cap"
    /\ stage[n] = "page" => mtu[n] = OriginalMTU[n]
    /\ stage[n] \in {"page", "cap"} => mtuFile[n] = OriginalMTU[n]

\* The offloads are on, or the file says that they were.
GroKept(n) ==
    /\ groFile[n] \in {Absent, "on"} \/ (stage[n] = "fill" /\ groFile[n] = Empty)
    /\ stage[n] = "fill" => gro[n] = "on"
    /\ stage[n] = "disable" => groFile[n] = "on"
    /\ gro[n] = "off" => groFile[n] = "on"

\* A goroutine in GracefullyShutDown: the programs are detached before an MTU is set,
\* what is not globbed is not there, and a file goes after its value is back.
Restoring(g) ==
    /\ stop[g] \notin {"mtu", "gro"} => todo[g] = {} /\ half[g] = {}
    /\ stop[g] \in {"mtu", "gro"} => native = {}
    /\ stop[g] = "mtu" => \A n \in NICs :
        /\ mtuFile[n] # NoMTU => n \in todo[g] \cup half[g]
        /\ n \in half[g] => mtu[n] = OriginalMTU[n]
    /\ stop[g] = "gro" => \A n \in NICs :
        /\ mtuFile[n] = NoMTU
        /\ groFile[n] # Absent => n \in todo[g] \cup half[g]
        /\ n \in half[g] => gro[n] = "on"

\* The iptables rules after RunPreDown, and the machine after os.Exit.
Stopped ==
    /\ stop["sig"] \in {"db", "detach", "mtu", "gro"} => rules = 0
    /\ exit \in Stoppers => main = "off" /\ \A n \in NICs : Restored(n)
    /\ exit = "sig" => rules = 0

Guarded ==
    /\ Threads /\ Stopped
    /\ \A n \in NICs : MtuKept(n) /\ GroKept(n)
    /\ \A g \in Stoppers : Restoring(g)

LifeInv == Shape /\ (windows = {} => Guarded)
-----------------------------------------------------------------------------
(***************************************************************************)
(* The migration.                                                          *)
(***************************************************************************)

\* Invoke's two transactions in their order: no boot, however the ones before it
\* ended, serves on tables that are not there.
THEOREM MigrationIsDone == Spec => []MigratedBeforeServing
<1>1. Init => MigrationInv
  BY DEF Init, MigrationInv
<1>2. MigrationInv /\ [Next]_vars => MigrationInv'
  <2> SUFFICES ASSUME MigrationInv, [Next]_vars PROVE MigrationInv'
    OBVIOUS
  <2> USE DEF MigrationInv, disk, machine
  <2>1. ASSUME NEW how, End(how) PROVE MigrationInv'
    BY <2>1 DEF End
  <2>2. CASE Boot \/ LoadFails \/ Up \/ PostUp \/ PostUpWatch \/ Down \/ Signal \/ PreDown
    <3>1. CASE Boot \/ LoadFails
      BY <3>1 DEF Boot, LoadFails
    <3>2. CASE Up \/ Down
      BY <3>2 DEF Up, Down
    <3>3. CASE PostUp \/ PostUpWatch \/ Signal \/ PreDown
      <4>1. UNCHANGED <<main, tables, recorded>>
        BY <3>3 DEF PostUp, PostUpWatch, Signal, PreDown
      <4> QED BY <4>1
    <3> QED BY <2>2, <3>1, <3>2, <3>3
  <2>3. ASSUME NEW n \in NICs, PinNIC(n) PROVE MigrationInv'
    BY <2>3 DEF PinNIC, SaveOffloads, FillOffloads, DisableOffloads, SaveMTU, ScaleToPage, ScaleToLimit, Script
  <2>4. CASE CheckMigration \/ RunMigration \/ RecordMigration
    BY <2>4 DEF CheckMigration, RunMigration, RecordMigration, MainStep
  <2>5. CASE Attach \/ Publish \/ TunFails
    BY <2>5 DEF Attach, Publish, TunFails, MainStep
  <2>6. ASSUME NEW g \in Stoppers, ShutDown(g) PROVE MigrationInv'
    <3>1. CASE Exit(g)
      BY <2>1, <3>1 DEF Exit
    <3>2. CASE ~Exit(g)
      BY <2>6, <3>2 DEF ShutDown, CloseConnection, Detach, GlobOffloads, RemoveMTUFile, RemoveOffloadsFile,
            RestoreMTU, RestoreOffloads, StopStep
    <3> QED BY <3>1, <3>2
  <2>7. CASE Beside(Edit) \/ Beside(WatchStep) \/ UNCHANGED vars
    BY <2>7 DEF Beside, vars
  <2> QED BY <2>1, <2>2, <2>3, <2>4, <2>5, <2>6, <2>7 DEF Next, Die, Return
<1>3. MigrationInv => MigratedBeforeServing
  BY DEF MigrationInv, MigratedBeforeServing
<1> QED BY <1>1, <1>2, <1>3, PTL DEF Spec
-----------------------------------------------------------------------------
(***************************************************************************)
(* The invariant of the restore files, action by action.                   *)
(***************************************************************************)
LEMMA LifeInit == Init => LifeInv
<1> SUFFICES ASSUME Init PROVE LifeInv
  OBVIOUS
<1>1. OriginalMTU \in [NICs -> Nat] /\ NoMTU \in Nat
  BY LifecycleAssumption DEF NoMTU
<1>2. Shape
  BY <1>1 DEF Init, Shape, Stages
<1>3. Threads /\ Stopped
  BY DEF Init, Threads, Stopped, Stoppers
<1>4. \A n \in NICs : MtuKept(n) /\ GroKept(n)
  BY <1>1 DEF Init, MtuKept, GroKept
<1>5. \A g \in Stoppers : Restoring(g)
  BY DEF Init, Restoring
<1> QED BY <1>2, <1>3, <1>4, <1>5 DEF LifeInv, Guarded

\* The goroutine that can still be met in shutdown tells where main is.
LEMMA StoppersUp ==
    ASSUME Threads, NEW g \in Stoppers, stop[g] # "wait"
    PROVE  main \in {"serve", "cancelled", "return"} /\ loaders /\ \A n \in NICs : stage[n] = "done"
BY DEF Threads

\* The end of a process outside the unguarded moments.
LEMMA EndKeeps ==
    ASSUME LifeInv, NEW how, End(how),
           windows = {} /\ how \in Stoppers => \A n \in NICs : Restored(n),
           windows = {} /\ how = "sig" => rules = 0
    PROVE  LifeInv'
<1>1. Shape'
  BY DEF LifeInv, Shape, End, machine, Stages
<1>2. ASSUME windows' = {} PROVE Guarded'
  <2>1. windows = {} /\ \A n \in NICs : ~Saving(n)
    BY <1>2 DEF End
  <2>2. Guarded
    BY <2>1 DEF LifeInv
  <2>3. Threads'
    <3>1. main' = "off" /\ \A g \in Stoppers : stop'[g] = "wait"
      BY DEF End
    <3>2. stop'["sig"] = "wait"
      BY <3>1 DEF Stoppers
    <3> QED BY <3>1, <3>2 DEF Threads
  <2>4. \A n \in NICs : MtuKept(n)'
    BY <2>1, <2>2 DEF End, Guarded, MtuKept, Saving, machine, LifeInv, Shape
  <2>5. \A n \in NICs : GroKept(n)'
    BY <2>1, <2>2 DEF End, Guarded, GroKept, Saving, machine, LifeInv, Shape
  <2>6. \A g \in Stoppers : Restoring(g)'
    BY DEF End, Restoring
  <2>7. Stopped'
    <3>1. exit' = how /\ main' = "off" /\ stop'["sig"] = "wait" /\ UNCHANGED machine
      BY DEF End, Stoppers
    <3>2. \A n \in NICs : Restored(n) => Restored(n)'
      BY <3>1 DEF Restored, machine
    <3> QED BY <2>1, <3>1, <3>2 DEF Stopped, machine
  <2> QED BY <2>3, <2>4, <2>5, <2>6, <2>7 DEF Guarded
<1> QED BY <1>1, <1>2 DEF LifeInv

\* Boot, and the end of a boot that could not load its settings.
LEMMA BootKeeps == ASSUME LifeInv, Boot \/ LoadFails PROVE LifeInv'
<1>1. UNCHANGED <<stage, stop, todo, half, mtu, mtuFile, gro, groFile, rules, native, loaders, windows>>
  BY DEF Boot, LoadFails, machine
<1>2. main = "off" /\ exit' \notin Stoppers /\ main' \in {"off", "script"}
  BY DEF Boot, LoadFails, CanBoot, Stoppers
<1>3. Shape'
  BY <1>1 DEF LifeInv, Shape
<1>4. ASSUME windows = {} PROVE Guarded'
  <2>1. Guarded
    BY <1>4 DEF LifeInv
  <2>2. Threads'
    BY <1>1, <1>2, <2>1 DEF Guarded, Threads
  <2>3. Stopped'
    BY <1>1, <1>2, <2>1 DEF Guarded, Stopped, Stoppers
  <2>4. \A n \in NICs : MtuKept(n)' /\ GroKept(n)'
    BY <1>1, <2>1 DEF Guarded, MtuKept, GroKept
  <2>5. \A g \in Stoppers : Restoring(g)'
    BY <1>1, <2>1 DEF Guarded, Restoring
  <2> QED BY <2>2, <2>3, <2>4, <2>5 DEF Guarded
<1> QED BY <1>1, <1>3, <1>4 DEF LifeInv

\* The script: one command on one NIC, while no goroutine restores anything.
LEMMA PinKeeps == ASSUME LifeInv, NEW n \in NICs, PinNIC(n) PROVE LifeInv'
<1>1. /\ main = "script"
      /\ UNCHANGED <<main, stop, todo, half, native, loaders, rules, exit, windows>>
  BY DEF PinNIC, SaveOffloads, FillOffloads, DisableOffloads, SaveMTU, ScaleToPage, ScaleToLimit, Script
<1>2. \E s \in Stages : stage' = [stage EXCEPT ![n] = s]
  BY DEF PinNIC, SaveOffloads, FillOffloads, DisableOffloads, SaveMTU, ScaleToPage, ScaleToLimit, Script, Stages
<1>3. \A m \in NICs \ {n} : mtu'[m] = mtu[m] /\ mtuFile'[m] = mtuFile[m] /\ gro'[m] = gro[m]
                          /\ groFile'[m] = groFile[m] /\ stage'[m] = stage[m]
  BY <1>2 DEF LifeInv, Shape, PinNIC, SaveOffloads, FillOffloads, DisableOffloads, SaveMTU, ScaleToPage,
              ScaleToLimit
<1>4. Shape'
  <2>1. stage' \in [NICs -> Stages]
    BY <1>2 DEF LifeInv, Shape
  <2>2. mtu' \in [NICs -> Nat] /\ mtuFile' \in [NICs -> Nat]
    BY LifecycleAssumption DEF LifeInv, Shape, PinNIC, SaveOffloads, FillOffloads, DisableOffloads, SaveMTU,
              ScaleToPage, ScaleToLimit
  <2>3. gro' \in [NICs -> {"on", "off"}] /\ groFile' \in [NICs -> {"on", "off", Absent, Empty}]
    BY DEF LifeInv, Shape, PinNIC, SaveOffloads, FillOffloads, DisableOffloads, SaveMTU,
              ScaleToPage, ScaleToLimit
  <2> QED BY <1>1, <2>1, <2>2, <2>3 DEF LifeInv, Shape
<1>5. ASSUME windows = {} PROVE Guarded'
  <2>1. Guarded
    BY <1>5 DEF LifeInv
  <2>2. Threads'
    BY <1>1, <2>1 DEF Guarded, Threads
  <2>3. Stopped'
    BY <1>1, <2>1 DEF Guarded, Stopped
  <2>4. \A g \in Stoppers : Restoring(g)'
    BY <1>1, <2>1 DEF Guarded, Restoring, Threads
  <2>5. MtuKept(n)'
    <3>1. MtuKept(n) /\ mtu[n] \in Nat /\ OriginalMTU[n] \in Nat \ {0} /\ XDPLimit \in Nat /\ PageSize \in Nat
          /\ XDPLimit < PageSize /\ n \in DOMAIN mtu /\ n \in DOMAIN mtuFile /\ n \in DOMAIN stage
      BY <2>1, LifecycleAssumption DEF Guarded, LifeInv, Shape
    <3>2. CASE SaveOffloads(n) \/ FillOffloads(n) \/ DisableOffloads(n)
      BY <3>1, <3>2 DEF SaveOffloads, FillOffloads, DisableOffloads, Script, MtuKept
    <3>3. CASE SaveMTU(n)
      BY <3>1, <3>3 DEF SaveMTU, Script, MtuKept
    <3>4. CASE ScaleToPage(n) \/ ScaleToLimit(n)
      BY <3>1, <3>4 DEF ScaleToPage, ScaleToLimit, Script, MtuKept
    <3> QED BY <3>2, <3>3, <3>4 DEF PinNIC
  <2>6. GroKept(n)'
    <3>1. GroKept(n) /\ n \in DOMAIN gro /\ n \in DOMAIN groFile /\ n \in DOMAIN stage /\ gro[n] \in {"on", "off"}
      BY <2>1 DEF Guarded, LifeInv, Shape
    <3>2. CASE SaveOffloads(n)
      BY <3>1, <3>2 DEF SaveOffloads, Script, GroKept, Absent, Empty
    <3>3. CASE FillOffloads(n) \/ DisableOffloads(n)
      BY <3>1, <3>3 DEF FillOffloads, DisableOffloads, Script, GroKept, Absent, Empty
    <3>4. CASE SaveMTU(n) \/ ScaleToPage(n) \/ ScaleToLimit(n)
      BY <3>1, <3>4 DEF SaveMTU, ScaleToPage, ScaleToLimit, Script, GroKept
    <3> QED BY <3>2, <3>3, <3>4 DEF PinNIC
  <2>7. \A m \in NICs : MtuKept(m)' /\ GroKept(m)'
    <3> TAKE m \in NICs
    <3>1. CASE m # n
      BY <1>3, <2>1, <3>1 DEF Guarded, MtuKept, GroKept
    <3> QED BY <2>5, <2>6, <3>1
  <2> QED BY <2>2, <2>3, <2>4, <2>7 DEF Guarded
<1> QED BY <1>1, <1>4, <1>5 DEF LifeInv

\* Steps that touch neither the NICs nor what a goroutine in shutdown has noted.
LEMMA NicsUntouched ==
    ASSUME Guarded, UNCHANGED <<stage, mtu, mtuFile, gro, groFile>>
    PROVE  \A n \in NICs : MtuKept(n)' /\ GroKept(n)'
BY DEF Guarded, MtuKept, GroKept

\* main on its way up, and a tun device that fails.
LEMMA MainKeeps ==
    ASSUME LifeInv, CheckMigration \/ RunMigration \/ RecordMigration \/ Attach \/ Publish \/ TunFails
    PROVE  LifeInv'
<1> USE DEF MainStep, machine, disk
<1>1. UNCHANGED <<stage, stop, todo, half, mtu, mtuFile, gro, groFile, rules, exit, windows>>
  BY DEF CheckMigration, RunMigration, RecordMigration, Attach, Publish, TunFails
<1>2. Shape'
  BY <1>1 DEF LifeInv, Shape
<1>3. ASSUME windows = {} PROVE Guarded'
  <2>1. Guarded /\ Threads
    BY <1>3 DEF LifeInv, Guarded
  <2>2. Threads'
    <3>1. \A n \in NICs : stage[n] = "done"
      BY <2>1 DEF CheckMigration, RunMigration, RecordMigration, Attach, Publish, TunFails, Threads
    <3>2. main' \in {"open", "serve", "cancelled", "return"} => loaders'
      BY <2>1 DEF CheckMigration, RunMigration, RecordMigration, Attach, Publish, TunFails, Threads
    <3>3. main' \notin {"serve", "cancelled", "return"} => main \notin {"serve", "cancelled", "return"}
      BY DEF CheckMigration, RunMigration, RecordMigration, Attach, Publish, TunFails
    <3> QED BY <1>1, <2>1, <3>1, <3>2, <3>3 DEF Threads
  <2>3. Stopped'
    <3>1. main # "off" /\ (exit \in Stoppers => main = "off")
      BY <2>1 DEF Guarded, Stopped, CheckMigration, RunMigration, RecordMigration, Attach, Publish, TunFails
    <3> QED BY <1>1, <2>1, <3>1 DEF Guarded, Stopped, Stoppers
  <2>4. \A n \in NICs : MtuKept(n)' /\ GroKept(n)'
    BY <1>1, <2>1, NicsUntouched
  <2>5. \A g \in Stoppers : Restoring(g)'
    <3>1. native' = native \/ \A g \in Stoppers : stop[g] = "wait"
      BY <2>1 DEF CheckMigration, RunMigration, RecordMigration, Attach, Publish, TunFails, Threads
    <3> QED BY <1>1, <2>1, <3>1 DEF Guarded, Restoring
  <2> QED BY <2>2, <2>3, <2>4, <2>5 DEF Guarded
<1> QED BY <1>1, <1>2, <1>3 DEF LifeInv

\* Steps of the two goroutines before GracefullyShutDown: what each leaves in stop.
LEMMA GoroutineKeeps ==
    ASSUME LifeInv, Up \/ PostUp \/ PostUpWatch \/ Down \/ Signal \/ PreDown
    PROVE  LifeInv'
<1> USE DEF machine, disk
<1>1. UNCHANGED <<stage, todo, half, mtu, mtuFile, gro, groFile, native, loaders, exit>>
  BY DEF Up, PostUp, PostUpWatch, Down, Signal, PreDown
<1>2. \E g \in Stoppers : \E s \in {"wait", "postup", "watch", "predown", "db"} :
         /\ stop' = [stop EXCEPT ![g] = s] /\ stop[g] \in {"wait", "postup", "watch", "predown"}
  BY DEF Up, PostUp, PostUpWatch, Down, Signal, PreDown, Stoppers
<1>3. Shape'
  <2>1. stop' \in [Stoppers -> {"wait", "postup", "watch", "predown", "db", "detach", "mtu", "gro"}]
    BY <1>2 DEF LifeInv, Shape
  <2> QED BY <1>1, <2>1 DEF LifeInv, Shape
<1>4. ASSUME windows' = {} PROVE Guarded'
  <2>1. windows = {}
    BY <1>4 DEF Up, PostUp, PostUpWatch, Down, Signal, PreDown
  <2>2. Guarded /\ Threads /\ Stopped
    BY <2>1 DEF LifeInv, Guarded
  <2>3. "sig" \in Stoppers /\ "up" \in Stoppers /\ DOMAIN stop = Stoppers
    BY DEF Stoppers, LifeInv, Shape
  <2>4. Threads'
    <3>1. CASE Up \/ Down
      BY <2>2, <2>3, <3>1 DEF Up, Down, Threads, Stoppers
    <3>2. CASE PostUp \/ PostUpWatch
      BY <2>2, <2>3, <3>2 DEF PostUp, PostUpWatch, Threads, Stoppers
    <3>3. CASE Signal
      <4>1. BootDone
        BY <1>4, <3>3 DEF Signal
      <4> QED BY <2>2, <2>3, <3>3, <4>1 DEF Signal, BootDone, Threads, Stoppers
    <3>4. CASE PreDown
      BY <2>2, <2>3, <3>4 DEF PreDown, Threads, Stoppers
    <3> QED BY <3>1, <3>2, <3>3, <3>4
  <2>5. Stopped'
    <3>1. main # "off"
      BY <2>2, <2>3 DEF Up, PostUp, PostUpWatch, Down, Signal, PreDown, Threads
    <3>2. exit' \notin Stoppers /\ exit' # "sig"
      BY <1>1, <2>2, <2>3, <3>1 DEF Stopped
    <3>3. stop'["sig"] \in {"db", "detach", "mtu", "gro"} => rules' = 0
      <4>1. CASE Up \/ Down \/ PostUpWatch
        BY <2>2, <2>3, <4>1 DEF Up, Down, PostUpWatch, Stopped
      <4>2. CASE PostUp
        BY <2>2, <2>3, <4>2 DEF PostUp, Stopped, Threads
      <4>3. CASE Signal \/ PreDown
        BY <2>3, <4>3 DEF Signal, PreDown
      <4> QED BY <4>1, <4>2, <4>3
    <3> QED BY <3>2, <3>3 DEF Stopped
  <2>6. \A n \in NICs : MtuKept(n)' /\ GroKept(n)'
    BY <1>1, <2>2, NicsUntouched
  <2>7. \A g \in Stoppers : Restoring(g)'
    BY <1>1, <1>2, <2>2, <2>3 DEF Guarded, Restoring
  <2> QED BY <2>4, <2>5, <2>6, <2>7 DEF Guarded
<1> QED BY <1>3, <1>4 DEF LifeInv

\* A step of g in GracefullyShutDown moves no other goroutine.
LEMMA ShutDownShape ==
    ASSUME LifeInv, NEW g \in Stoppers, ShutDown(g), ~Exit(g)
    PROVE  /\ UNCHANGED <<main, stage, rules, loaders, exit, windows>>
           /\ stop[g] \in {"db", "detach", "mtu", "gro"} /\ stop'[g] \in {"detach", "mtu", "gro"}
           /\ \A h \in Stoppers \ {g} : stop'[h] = stop[h] /\ todo'[h] = todo[h] /\ half'[h] = half[h]
           /\ native' \subseteq native
           /\ Shape'
<1> USE DEF ShutDown, CloseConnection, Detach, GlobOffloads, RemoveMTUFile, RemoveOffloadsFile,
            RestoreMTU, RestoreOffloads, StopStep
<1>1. UNCHANGED <<main, stage, rules, loaders, exit, windows>> /\ native' \subseteq native
  OBVIOUS
<1>2. \E s \in {"detach", "mtu", "gro"} : stop' = [stop EXCEPT ![g] = s]
  OBVIOUS
<1>3. stop[g] \in {"db", "detach", "mtu", "gro"}
  OBVIOUS
<1>4. Shape
  BY DEF LifeInv
<1>5. \E s \in SUBSET NICs : todo' = [todo EXCEPT ![g] = s]
  BY <1>4 DEF Shape
<1>6. \E s \in SUBSET NICs : half' = [half EXCEPT ![g] = s]
  BY <1>4 DEF Shape
<1>7. mtu' \in [NICs -> Nat] /\ mtuFile' \in [NICs -> Nat]
  BY <1>4 DEF Shape, LinkSetMTU, NoMTU
<1>8. gro' \in [NICs -> {"on", "off"}] /\ groFile' \in [NICs -> {"on", "off", Absent, Empty}]
  BY <1>4 DEF Shape
<1>9. stop' \in [Stoppers -> {"wait", "postup", "watch", "predown", "db", "detach", "mtu", "gro"}]
  BY <1>2, <1>4 DEF Shape
<1>10. todo' \in [Stoppers -> SUBSET NICs] /\ half' \in [Stoppers -> SUBSET NICs]
  BY <1>4, <1>5, <1>6 DEF Shape
<1>11. Shape'
  BY <1>1, <1>4, <1>7, <1>8, <1>9, <1>10 DEF Shape
<1>12. \A h \in Stoppers \ {g} : stop'[h] = stop[h] /\ todo'[h] = todo[h] /\ half'[h] = half[h]
  BY <1>2, <1>4, <1>5, <1>6 DEF Shape
<1>13. stop'[g] \in {"detach", "mtu", "gro"}
  BY <1>2, <1>4 DEF Shape
<1> QED BY <1>1, <1>3, <1>11, <1>12, <1>13

\* A step of g in GracefullyShutDown: a file is removed when its value is back, for
\* the sake of g and of the other goroutine that may be restoring from it.
LEMMA ShutDownKeeps ==
    ASSUME LifeInv, NEW g \in Stoppers, ShutDown(g), ~Exit(g)
    PROVE  LifeInv'
<1>1. /\ UNCHANGED <<main, stage, rules, loaders, exit, windows>>
      /\ stop[g] \in {"db", "detach", "mtu", "gro"} /\ stop'[g] \in {"detach", "mtu", "gro"}
      /\ \A h \in Stoppers \ {g} : stop'[h] = stop[h] /\ todo'[h] = todo[h] /\ half'[h] = half[h]
      /\ native' \subseteq native
      /\ Shape'
  BY ShutDownShape
<1>2. ASSUME windows = {} PROVE Guarded'
  <2>0. Shape /\ Guarded /\ Threads /\ Stopped /\ \A h \in Stoppers : Restoring(h)
    BY <1>2 DEF LifeInv, Guarded
  <2>1. main \in {"serve", "cancelled", "return"} /\ loaders /\ \A n \in NICs : stage[n] = "done"
    BY <1>1, <2>0, StoppersUp
  <2>2. "sig" \in Stoppers /\ "up" \in Stoppers
    BY DEF Stoppers
  <2>3. Threads'
    <3>1. stop'["up"] = stop["up"] \/ stop'["up"] \in {"detach", "mtu", "gro"}
      BY <1>1, <2>2
    <3>2. stop'["sig"] # "wait" => stop["sig"] # "wait"
      BY <1>1, <2>2
    <3> QED BY <1>1, <2>0, <2>1, <3>1, <3>2 DEF Threads
  <2>4. Stopped'
    <3>1. exit' \notin Stoppers /\ exit' # "sig"
      BY <1>1, <2>0, <2>1, <2>2 DEF Stopped
    <3>2. stop'["sig"] \in {"db", "detach", "mtu", "gro"} => stop["sig"] \in {"db", "detach", "mtu", "gro"}
      BY <1>1, <2>2
    <3> QED BY <1>1, <2>0, <3>1, <3>2 DEF Stopped
  <2>5. \A n \in NICs :
            /\ mtuFile[n] \in {NoMTU, OriginalMTU[n]} /\ OriginalMTU[n] # NoMTU
            /\ mtu[n] # OriginalMTU[n] => mtuFile[n] = OriginalMTU[n]
            /\ mtu[n] \in {OriginalMTU[n], XDPLimit}
            /\ groFile[n] \in {Absent, "on"}
            /\ gro[n] = "off" => groFile[n] = "on"
    BY <2>0, <2>1, LifecycleAssumption DEF Guarded, MtuKept, GroKept, NoMTU
  <2> DEFINE NicsOK == \A n \in NICs :
                 /\ mtuFile'[n] \in {NoMTU, OriginalMTU[n]}
                 /\ mtu'[n] # OriginalMTU[n] => mtuFile'[n] = OriginalMTU[n]
                 /\ mtu'[n] \in {OriginalMTU[n], XDPLimit}
                 /\ groFile'[n] \in {Absent, "on"}
                 /\ gro'[n] = "off" => groFile'[n] = "on"
             Goal == NicsOK /\ \A h \in Stoppers : Restoring(h)'
  <2>6. Goal
    <3> USE DEF StopStep
    <3>1. CASE CloseConnection(g)
      <4>1. NicsOK
        BY <2>5, <3>1 DEF CloseConnection
      <4>2. UNCHANGED <<todo, half, mtu, mtuFile, gro, groFile, native>> /\ stop[g] = "db" /\ stop'[g] = "detach"
        BY <2>0, <3>1 DEF CloseConnection, Shape
      <4>3. \A h \in Stoppers : Restoring(h)'
        BY <1>1, <2>0, <4>2 DEF Restoring
      <4> QED BY <4>1, <4>3
    <3>2. CASE Detach(g)
      <4>1. NicsOK
        BY <2>5, <3>2 DEF Detach
      <4>2. /\ UNCHANGED <<half, mtu, mtuFile, gro, groFile>> /\ native' = {}
            /\ stop[g] = "detach" /\ stop'[g] = "mtu" /\ todo'[g] = {n \in NICs : mtuFile[n] # NoMTU}
        BY <2>0, <2>1, <3>2 DEF Detach, Shape
      <4>3. Restoring(g)'
        BY <2>0, <4>2 DEF Restoring
      <4>4. \A h \in Stoppers \ {g} : Restoring(h)'
        BY <1>1, <2>0, <4>2 DEF Restoring
      <4> QED BY <4>1, <4>3, <4>4
    <3>3. CASE GlobOffloads(g)
      <4>1. NicsOK
        BY <2>5, <3>3 DEF GlobOffloads
      <4>2. /\ UNCHANGED <<half, mtu, mtuFile, gro, groFile, native>> /\ todo[g] = {} /\ half[g] = {}
            /\ stop[g] = "mtu" /\ stop'[g] = "gro" /\ todo'[g] = {n \in NICs : groFile[n] # Absent}
        BY <2>0, <3>3 DEF GlobOffloads, Shape
      <4>3. Restoring(g)'
        BY <2>0, <4>2 DEF Restoring
      <4>4. \A h \in Stoppers \ {g} : Restoring(h)'
        BY <1>1, <2>0, <4>2 DEF Restoring
      <4> QED BY <4>1, <4>3, <4>4
    <3>4. CASE RemoveMTUFile(g)
      <4>1. /\ UNCHANGED <<todo, mtu, gro, groFile, native>> /\ stop[g] = "mtu" /\ stop'[g] = "mtu"
            /\ half'[g] = {} /\ \A n \in NICs : mtuFile'[n] = IF n \in half[g] THEN NoMTU ELSE mtuFile[n]
        BY <2>0, <3>4 DEF RemoveMTUFile, Shape
      <4>2. \A n \in half[g] : mtu[n] = OriginalMTU[n]
        BY <2>0, <4>1 DEF Restoring, Shape
      <4>3. NicsOK
        BY <2>5, <4>1, <4>2
      <4>4. Restoring(g)'
        BY <2>0, <4>1 DEF Restoring
      <4>5. \A h \in Stoppers \ {g} : Restoring(h)'
        BY <1>1, <2>0, <4>1 DEF Restoring
      <4> QED BY <4>3, <4>4, <4>5
    <3>5. CASE RemoveOffloadsFile(g)
      <4>1. /\ UNCHANGED <<todo, mtu, mtuFile, gro, native>> /\ stop[g] = "gro" /\ stop'[g] = "gro"
            /\ half'[g] = {} /\ \A n \in NICs : groFile'[n] = IF n \in half[g] THEN Absent ELSE groFile[n]
        BY <2>0, <3>5 DEF RemoveOffloadsFile, Shape
      <4>2. \A n \in half[g] : gro[n] = "on"
        BY <2>0, <4>1 DEF Restoring, Shape
      <4>3. NicsOK
        BY <2>5, <4>1, <4>2
      <4>4. Restoring(g)'
        BY <2>0, <4>1 DEF Restoring
      <4>5. \A h \in Stoppers \ {g} : Restoring(h)'
        BY <1>1, <2>0, <4>1 DEF Restoring
      <4> QED BY <4>3, <4>4, <4>5
    <3>6. ASSUME NEW n \in NICs, RestoreMTU(g, n) PROVE Goal
      <4>1. /\ UNCHANGED <<mtuFile, gro, groFile, native>> /\ stop[g] = "mtu" /\ stop'[g] = "mtu"
            /\ half[g] = {} /\ todo'[g] = todo[g] \ {n}
            /\ half'[g] = IF mtuFile[n] = NoMTU THEN {} ELSE {n}
            /\ \A m \in NICs \ {n} : mtu'[m] = mtu[m]
            /\ mtu'[n] = IF mtuFile[n] = NoMTU THEN mtu[n] ELSE LinkSetMTU(n, mtuFile[n])
        BY <2>0, <3>6 DEF RestoreMTU, Shape
      <4>2. mtu'[n] = OriginalMTU[n]
        <5>1. native = {}
          BY <2>0, <4>1 DEF Restoring
        <5> QED BY <2>5, <4>1, <5>1 DEF LinkSetMTU
      <4>3. NicsOK
        BY <2>5, <4>1, <4>2
      <4>4. Restoring(g)'
        BY <2>0, <4>1, <4>2 DEF Restoring
      <4>5. \A h \in Stoppers \ {g} : Restoring(h)'
        BY <1>1, <2>0, <4>1, <4>2 DEF Restoring
      <4> QED BY <4>3, <4>4, <4>5
    <3>7. ASSUME NEW n \in NICs, RestoreOffloads(g, n) PROVE Goal
      <4>1. /\ UNCHANGED <<mtu, mtuFile, groFile, native>> /\ stop[g] = "gro" /\ stop'[g] = "gro"
            /\ half[g] = {} /\ todo'[g] = todo[g] \ {n}
            /\ half'[g] = IF groFile[n] = Absent THEN {} ELSE {n}
            /\ \A m \in NICs \ {n} : gro'[m] = gro[m]
            /\ gro'[n] = IF groFile[n] \in {"on", "off"} THEN groFile[n] ELSE gro[n]
        BY <2>0, <3>7 DEF RestoreOffloads, Shape
      <4>2. gro'[n] = "on"
        <5>1. gro[n] \in {"on", "off"}
          BY <2>0 DEF Shape
        <5> QED BY <2>5, <4>1, <5>1 DEF Absent
      <4>3. NicsOK
        BY <2>5, <4>1, <4>2
      <4>4. Restoring(g)'
        BY <2>0, <4>1, <4>2 DEF Restoring
      <4>5. \A h \in Stoppers \ {g} : Restoring(h)'
        BY <1>1, <2>0, <4>1, <4>2 DEF Restoring
      <4> QED BY <4>3, <4>4, <4>5
    <3> QED BY <3>1, <3>2, <3>3, <3>4, <3>5, <3>6, <3>7 DEF ShutDown
  <2>7. \A n \in NICs : MtuKept(n)' /\ GroKept(n)'
    <3>1. \A n \in NICs : stage'[n] = "done"
      BY <1>1, <2>1
    <3> QED BY <2>6, <3>1 DEF MtuKept, GroKept
  <2> QED BY <2>3, <2>4, <2>6, <2>7 DEF Guarded
<1> QED BY <1>1, <1>2 DEF LifeInv

LEMMA LifeStep == LifeInv /\ [Next]_vars => LifeInv'
<1> SUFFICES ASSUME LifeInv, [Next]_vars PROVE LifeInv'
  OBVIOUS
<1>1. CASE Die \/ Return
  <2>1. \E how \in {"died", "return"} : End(how)
    BY <1>1 DEF Die, Return
  <2> QED BY <2>1, EndKeeps DEF Stoppers
<1>2. ASSUME NEW g \in Stoppers, Exit(g) PROVE LifeInv'
  <2>1. ASSUME windows = {} PROVE (\A n \in NICs : Restored(n)) /\ (g = "sig" => rules = 0)
    <3>1. Guarded /\ Restoring(g) /\ Stopped /\ Shape
      BY <2>1 DEF LifeInv, Guarded
    <3>2. stop[g] = "gro" /\ todo[g] = {} /\ half[g] = {}
      BY <1>2 DEF Exit
    <3>3. \A n \in NICs : mtuFile[n] = NoMTU /\ groFile[n] = Absent
      BY <3>1, <3>2 DEF Restoring
    <3>4. \A n \in NICs : OriginalMTU[n] # NoMTU
      BY LifecycleAssumption DEF NoMTU
    <3>5. \A n \in NICs : mtu[n] = OriginalMTU[n]
      BY <3>1, <3>3, <3>4 DEF Guarded, MtuKept
    <3>6. \A n \in NICs : gro[n] = "on"
      BY <3>1, <3>3 DEF Guarded, GroKept, Shape, Absent
    <3> QED BY <3>1, <3>2, <3>3, <3>5, <3>6 DEF Restored, Stopped
  <2> QED BY <1>2, <2>1, EndKeeps DEF Exit
<1>3. CASE Beside(Edit) \/ Beside(WatchStep) \/ UNCHANGED vars
  <2>1. UNCHANGED <<main, stage, stop, todo, half, mtu, mtuFile, gro, groFile, rules, native, loaders, exit, windows>>
    BY <1>3 DEF Beside, vars, machine
  <2>2. Shape'
    BY <2>1 DEF LifeInv, Shape
  <2>3. Guarded => Guarded'
    <3> SUFFICES ASSUME Guarded PROVE Guarded'
      OBVIOUS
    <3>1. Threads'
      BY <2>1 DEF Guarded, Threads
    <3>2. Stopped'
      BY <2>1 DEF Guarded, Stopped, Restored
    <3>3. \A g \in Stoppers : Restoring(g)'
      BY <2>1 DEF Guarded, Restoring
    <3> QED BY <2>1, <3>1, <3>2, <3>3, NicsUntouched DEF Guarded
  <2> QED BY <2>1, <2>2, <2>3 DEF LifeInv
<1>4. ASSUME NEW g \in Stoppers, ShutDown(g) PROVE LifeInv'
  BY <1>2, <1>4, ShutDownKeeps
<1>5. ASSUME NEW n \in NICs, PinNIC(n) PROVE LifeInv'
  BY <1>5, PinKeeps
<1>6. CASE Boot \/ LoadFails
  BY <1>6, BootKeeps
<1>7. CASE CheckMigration \/ RunMigration \/ RecordMigration \/ Attach \/ Publish \/ TunFails
  BY <1>7, MainKeeps
<1>8. CASE Up \/ PostUp \/ PostUpWatch \/ Down \/ Signal \/ PreDown
  BY <1>8, GoroutineKeeps
<1> QED BY <1>1, <1>3, <1>4, <1>5, <1>6, <1>7, <1>8 DEF Next

\* The original MTU and offloads are never lost (pin_nic, restoreWanMTU,
\* restoreWanOffloads), over any number of boots and kills outside the moments that
\* windows records.
THEOREM OriginalsAreKept == Spec => []OriginalsKept
<1>1. LifeInv => OriginalsKept
  <2> SUFFICES ASSUME LifeInv, windows = {}, NEW n \in NICs
               PROVE  OriginalMTU[n] \in {mtu[n], mtuFile[n]} /\ "on" \in {gro[n], groFile[n]}
    BY DEF OriginalsKept
  <2>1. MtuKept(n) /\ GroKept(n) /\ gro[n] \in {"on", "off"}
    BY DEF LifeInv, Guarded, Shape
  <2> QED BY <2>1 DEF MtuKept, GroKept
<1> QED BY <1>1, LifeInit, LifeStep, PTL DEF Spec

\* GracefullyShutDown, alone or run by both goroutines at once, leaves the machine
\* as it was before the first boot.
THEOREM StopsClean == Spec => []CleanStop
<1>1. LifeInv => CleanStop
  BY DEF LifeInv, Guarded, Stopped, CleanStop
<1> QED BY <1>1, LifeInit, LifeStep, PTL DEF Spec
=============================================================================
