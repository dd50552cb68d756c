-------------------------- MODULE ApplyTransaction --------------------------
(***************************************************************************)
(* 04_apply_spoof.py against libvirt, systemd and nftables.                *)
(*                                                                         *)
(* One run of 04 changes things nothing groups into a transaction: the     *)
(* profile's networks (destroyed, undefined, defined, started one command  *)
(* at a time), the isolation rules and their boot-time unit, the domain    *)
(* definition, and last the networks of the profile it replaces.  A run    *)
(* ends where a command fails or a signal arrives, and undoes nothing.     *)
(* Around it and while it runs the owner of the machine starts, stops and  *)
(* edits the domain, runs 01 to 03 again, and the host reboots.            *)
(*                                                                         *)
(* Artifacts and runtime files are ArtifactPipeline's subject: here an     *)
(* identity is a number, and loading one yields a whole and checked set.   *)
(***************************************************************************)
EXTENDS Naturals

CONSTANTS MaxGen,           \* bound: identities 01 to 03 produce
          MaxEdit,          \* bound: edits the owner makes to the domain
          Adapters,         \* network adapters of the domain: 1..Adapters
          Faults            \* may commands fail and 04 be killed?

ASSUME MaxGenAssumption == MaxGen \in Nat
ASSUME MaxEditAssumption == MaxEdit \in Nat
ASSUME AdaptersAssumption == Adapters \in Nat \ {0}
ASSUME FlagsAssumption == Faults \in BOOLEAN

Gens == 1..MaxGen
Index == 1..Adapters
Net == Gens \X Index             \* lan-<token of the identity>-<adapter>
NetsOf(g) == {<<g, i>> : i \in IF g = 0 THEN {} ELSE Index}
Xml == [profile : 0..MaxGen, edit : 0..MaxEdit]

PreparingLabels == {"dump", "state", "backup", "list"}
NetworkLabels == {"destroy", "undefine", "define", "autostart", "start"}
IsolationLabels == {"nft", "script", "unit", "reload", "enable", "restart"}
FinishingLabels == {"redefine", "obsolete", "drop", "forget", "report"}
Labels == {"idle"} \cup PreparingLabels \cup NetworkLabels
          \cup IsolationLabels \cup FinishingLabels

\* 04 has looked at the machine's state and has not yet defined it anew.
Unguarded == {"backup", "list"} \cup NetworkLabels \cup IsolationLabels \cup {"redefine"}

VARIABLES
  current,    \* the identity in artifacts/ and build/, 0 before the first
  domain,     \* the domain XML libvirt stores
  edits,      \* edits the owner has made, to number them
  vm,         \* "off" or "on"
  live,       \* the XML the running machine was started with
  defined,    \* networks libvirt has a definition of
  active,     \* networks that run
  autostart,  \* networks started at boot
  nft,        \* identities whose runtime holds guest-isolation.nft
  script,     \* identities whose runtime holds apply-isolation.sh
  unit,       \* the identity whose script the installed unit runs, 0 for none
  loaded,     \* ... and the one systemd has read
  enabled,    \* is the unit enabled at boot?
  table,      \* the identity whose bridges the nftables table lists, 0 for none
  backup,     \* the domain XMLs in backups/
  settled,    \* history: 04 reported success and no run changed anything since
  cut,        \* history: a run of 04 ended before its last command
  misread,    \* history: 04 went on with the XML of a machine that has another profile
  intruded,   \* history: the machine was started in a run, while Unguarded
  pc,         \* where 04 is
  mem,        \* 04: the identity it loaded
  dump,       \* 04: xml_text, the domain XML it read
  listed,     \* 04: all_networks and active_networks, or what is left to remove
  i           \* 04: the adapter it is at

host == <<nft, script, unit, loaded, enabled, table>>
nets == <<defined, active, autostart>>
guest == <<vm, live>>
local == <<mem, dump, listed, i>>
history == <<settled, cut, misread, intruded>>
vars == <<current, domain, edits, guest, nets, host, backup, history, pc, local>>

NoXml == [profile |-> 0, edit |-> 0]
NoList == [all |-> {}, active |-> {}]

TypeOK ==
  /\ current \in 0..MaxGen
  /\ domain \in Xml /\ dump \in Xml /\ backup \subseteq Xml
  /\ vm \in {"off", "on"}
  /\ live \in Xml
  /\ defined \subseteq Net /\ active \subseteq Net /\ autostart \subseteq Net
  /\ nft \subseteq Gens /\ script \subseteq Gens
  /\ unit \in 0..MaxGen /\ loaded \in 0..MaxGen /\ table \in 0..MaxGen
  /\ enabled \in BOOLEAN
  /\ {settled, cut, misread, intruded} \subseteq BOOLEAN
  /\ edits \in 0..MaxEdit
  /\ pc \in Labels
  /\ mem \in 0..MaxGen
  /\ listed \in [all : SUBSET Net, active : SUBSET Net]
  /\ i \in Index

Init ==
  /\ current = 0
  /\ domain = NoXml
  /\ vm = "off" /\ live = NoXml
  /\ defined = {} /\ active = {} /\ autostart = {}
  /\ nft = {} /\ script = {}
  /\ unit = 0 /\ loaded = 0 /\ enabled = FALSE /\ table = 0
  /\ backup = {}
  /\ settled = FALSE /\ cut = FALSE /\ misread = FALSE /\ intruded = FALSE
  /\ edits = 0
  /\ pc = "idle" /\ mem = 0 /\ dump = NoXml /\ listed = NoList /\ i = 1

\* 04 moves from one command to the next.
Step(from, to) == pc = from /\ pc' = to

\* The process is gone, with what it held in memory.
Exit ==
  /\ pc' = "idle"
  /\ mem' = 0 /\ dump' = NoXml /\ listed' = NoList /\ i' = 1

-----------------------------------------------------------------------------
(* 04, up to the last point where it has changed nothing in libvirt.       *)

\* select_domain, load_artifacts and validate_build_outputs.
LoadArtifacts ==
  /\ Step("idle", "dump")
  /\ current # 0
  /\ mem' = current
  /\ UNCHANGED <<current, domain, edits, guest, nets, host, backup, history, dump, listed, i>>

\* Without --inactive: of a machine that runs it is the XML it runs with.
DumpXml ==
  /\ Step("dump", "state")
  /\ dump' = IF vm = "on" THEN live ELSE domain
  /\ UNCHANGED <<current, domain, edits, guest, nets, host, backup, history, mem, listed, i>>

\* Mutant: the state is read and not compared.
SkipStateCheck ==
  /\ Step("state", "backup")
  /\ UNCHANGED <<current, domain, edits, guest, nets, host, backup, history, local>>

\* "The machine must be shut off": looked at once, here.
CheckShutOff ==
  /\ Step("state", "backup")
  /\ vm = "off"
  /\ misread' = (misread \/ dump.profile # domain.profile)
  /\ UNCHANGED <<current, domain, edits, guest, nets, host, backup, settled, cut, intruded,
                 local>>

RefuseRunning ==
  /\ pc = "state" /\ vm = "on"
  /\ Exit
  /\ UNCHANGED <<current, domain, edits, guest, nets, host, backup, history>>

\* deploy_runtime, and then the XML it read to backups/.
Backup ==
  /\ Step("backup", "list")
  /\ backup' = backup \cup {dump}
  /\ UNCHANGED <<current, domain, edits, guest, nets, host, history, local>>

-----------------------------------------------------------------------------
(* ensure_managed_networks: one network per adapter, made anew.            *)

Network == <<mem, i>>

\* net-list shows defined networks and, with --all or not, those that run.
NetListing == [all |-> defined \cup active, active |-> active]

\* apply_profile has changed the XML in memory, and only that.
ListNetworks ==
  /\ Step("list", "destroy")
  /\ listed' = NetListing
  /\ settled' = FALSE
  /\ UNCHANGED <<current, domain, edits, guest, nets, host, backup, cut, misread, intruded,
                 mem, dump, i>>

NetDestroy ==
  /\ Step("destroy", "undefine")
  /\ active' = active \ ({Network} \cap listed.active)
  /\ UNCHANGED <<current, domain, edits, guest, defined, autostart, host, backup, history, local>>

NetUndefine ==
  /\ Step("undefine", "define")
  /\ defined' = defined \ ({Network} \cap listed.all)
  /\ autostart' = autostart \ ({Network} \cap listed.all)
  /\ UNCHANGED <<current, domain, edits, guest, active, host, backup, history, local>>

NetDefine ==
  /\ Step("define", "autostart")
  /\ defined' = defined \cup {Network}
  /\ UNCHANGED <<current, domain, edits, guest, active, autostart, host, backup, history, local>>

\* Mutant: net-autostart is left out.
NetNoAutostart ==
  /\ Step("autostart", "start")
  /\ UNCHANGED <<current, domain, edits, guest, nets, host, backup, history, local>>

NetAutostart ==
  /\ Step("autostart", "start")
  /\ autostart' = autostart \cup {Network}
  /\ UNCHANGED <<current, domain, edits, guest, defined, active, host, backup, history, local>>

\* Mutant: the loop goes one adapter too far.
NetStartPastLast ==
  /\ Step("start", IF i <= Adapters THEN "destroy" ELSE "nft")
  /\ active' = active \cup {Network}
  /\ i' = IF i <= Adapters THEN i + 1 ELSE 1
  /\ listed' = IF i <= Adapters THEN listed ELSE NoList
  /\ UNCHANGED <<current, domain, edits, guest, defined, autostart, host, backup, history,
                 mem, dump>>

NetStart ==
  /\ Step("start", IF i < Adapters THEN "destroy" ELSE "nft")
  /\ active' = active \cup {Network}
  /\ i' = IF i < Adapters THEN i + 1 ELSE 1
  /\ listed' = IF i < Adapters THEN listed ELSE NoList     \* the function returns
  /\ UNCHANGED <<current, domain, edits, guest, defined, autostart, host, backup, history,
                 mem, dump>>

-----------------------------------------------------------------------------
(* apply_guest_isolation: rules, script and unit; then systemd.            *)

InstallRules ==
  /\ Step("nft", "script")
  /\ nft' = nft \cup {mem}
  /\ UNCHANGED <<current, domain, edits, guest, nets, script, unit, loaded, enabled, table,
                 backup, history, local>>

\* Mutant: the script is taken for installed.
NoScript ==
  /\ Step("script", "unit")
  /\ UNCHANGED <<current, domain, edits, guest, nets, host, backup, history, local>>

InstallScript ==
  /\ Step("script", "unit")
  /\ script' = script \cup {mem}
  /\ UNCHANGED <<current, domain, edits, guest, nets, nft, unit, loaded, enabled, table,
                 backup, history, local>>

InstallUnit ==
  /\ Step("unit", "reload")
  /\ unit' = mem
  /\ UNCHANGED <<current, domain, edits, guest, nets, nft, script, loaded, enabled, table,
                 backup, history, local>>

\* Mutant: systemd is not told of the new unit.
NoDaemonReload ==
  /\ Step("reload", "enable")
  /\ UNCHANGED <<current, domain, edits, guest, nets, host, backup, history, local>>

\* `install` writes these files in place; an identity that is applied again has
\* them already.  Cut short, it leaves an empty file or none.
InstallCutShort ==
  /\ Faults
  /\ pc \in {"nft", "script", "unit"}
  /\ nft' = IF pc = "nft" THEN nft \ {mem} ELSE nft
  /\ script' = IF pc = "script" THEN script \ {mem} ELSE script
  /\ unit' = IF pc = "unit" THEN 0 ELSE unit
  /\ cut' = TRUE
  /\ Exit
  /\ UNCHANGED <<current, domain, edits, guest, nets, loaded, enabled, table, backup, settled,
                 misread, intruded>>

DaemonReload ==
  /\ Step("reload", "enable")
  /\ loaded' = unit
  /\ UNCHANGED <<current, domain, edits, guest, nets, nft, script, unit, enabled, table,
                 backup, history, local>>

EnableUnit ==
  /\ Step("enable", "restart")
  /\ enabled' = TRUE
  /\ UNCHANGED <<current, domain, edits, guest, nets, nft, script, unit, loaded, table,
                 backup, history, local>>

\* The table the loaded unit leaves behind when its script can run: stopping
\* destroys the table, starting makes the one of the script's identity.
TableOf(u) == IF u \in script /\ u \in nft THEN u ELSE 0

RestartUnit ==
  /\ Step("restart", "redefine")
  /\ table' = TableOf(loaded)
  /\ UNCHANGED <<current, domain, edits, guest, nets, nft, script, unit, loaded, enabled,
                 backup, history, local>>

\* The restart stops the unit, cannot start it again, and 04 ends.
RestartFails ==
  /\ Faults
  /\ pc = "restart"
  /\ table' = 0
  /\ Exit
  /\ cut' = TRUE
  /\ UNCHANGED <<current, domain, edits, guest, nets, nft, script, unit, loaded, enabled,
                 backup, settled, misread, intruded>>

-----------------------------------------------------------------------------
(* virsh define, and what the replaced profile leaves behind.              *)

\* The new profile over the XML as it was read.
Redefine ==
  /\ Step("redefine", "obsolete")
  /\ domain' = [profile |-> mem, edit |-> dump.edit]
  /\ UNCHANGED <<current, edits, guest, nets, host, backup, history, local>>

\* Mutant: all networks of the XML it read, the new ones among them.
ListAllOfDump ==
  /\ Step("obsolete", "drop")
  /\ listed' = [all |-> NetsOf(dump.profile) \cap NetListing.all, active |-> NetListing.active]
  /\ UNCHANGED <<current, domain, edits, guest, nets, host, backup, history, mem, dump, i>>

\* Mutant: the old networks are looked up in the XML that was just defined.
ListObsoleteOfNew ==
  /\ Step("obsolete", "drop")
  /\ listed' = [all |-> (NetsOf(domain.profile) \ NetsOf(mem)) \cap NetListing.all,
                active |-> NetListing.active]
  /\ UNCHANGED <<current, domain, edits, guest, nets, host, backup, history, mem, dump, i>>

\* remove_obsolete_profile_networks: those of the XML it read, without the
\* ones it has just made, as far as they are still listed.
ListObsolete ==
  /\ Step("obsolete", "drop")
  /\ LET stale == NetsOf(dump.profile) \ NetsOf(mem)
     IN listed' = [all |-> stale \cap NetListing.all, active |-> NetListing.active]
  /\ UNCHANGED <<current, domain, edits, guest, nets, host, backup, history, mem, dump, i>>

DestroyObsolete(n) ==
  /\ n \in listed.all
  /\ Step("drop", "forget")
  /\ i' = n[2]
  /\ active' = active \ ({n} \cap listed.active)
  /\ UNCHANGED <<current, domain, edits, guest, defined, autostart, host, backup, history,
                 mem, dump, listed>>

UndefineObsolete(n) ==
  /\ n \in listed.all /\ n[2] = i
  /\ Step("forget", "drop")
  /\ defined' = defined \ {n}
  /\ autostart' = autostart \ {n}
  /\ listed' = [listed EXCEPT !.all = @ \ {n}]
  /\ UNCHANGED <<current, domain, edits, guest, active, host, backup, history, mem, dump, i>>

Report ==
  /\ pc = "drop" /\ listed.all = {}
  /\ Exit
  /\ settled' = TRUE
  /\ UNCHANGED <<current, domain, edits, guest, nets, host, backup, cut, misread, intruded>>

\* A command fails, a check rejects, or 04 is killed.
Stop ==
  /\ Faults
  /\ pc # "idle"
  /\ Exit
  /\ cut' = TRUE
  /\ UNCHANGED <<current, domain, edits, guest, nets, host, backup, settled, misread,
                 intruded>>

Apply ==
  \/ LoadArtifacts \/ DumpXml \/ CheckShutOff \/ RefuseRunning \/ Backup
  \/ ListNetworks \/ NetDestroy \/ NetUndefine \/ NetDefine \/ NetAutostart \/ NetStart
  \/ InstallRules \/ InstallScript \/ InstallUnit
  \/ DaemonReload \/ EnableUnit \/ RestartUnit
  \/ Redefine \/ ListObsolete
  \/ \E n \in Net : DestroyObsolete(n) \/ UndefineObsolete(n)
  \/ Report

-----------------------------------------------------------------------------
(* Around 04.                                                              *)

\* 01, 02 and 03 again: another identity in artifacts/ and build/.
Regenerate ==
  /\ current < MaxGen
  /\ current' = current + 1
  /\ UNCHANGED <<domain, edits, guest, nets, host, backup, history, pc, local>>

\* libvirt refuses to start a domain on a network that does not run.
StartVm ==
  /\ vm = "off" /\ NetsOf(domain.profile) \subseteq active
  /\ vm' = "on" /\ live' = domain
  /\ intruded' = (pc \in Unguarded)
  /\ UNCHANGED <<current, domain, edits, nets, host, backup, settled, cut, misread, pc, local>>

\* Shut down, from inside or outside.
StopVm ==
  /\ vm = "on"
  /\ vm' = "off" /\ live' = NoXml /\ intruded' = FALSE
  /\ UNCHANGED <<current, domain, edits, nets, host, backup, settled, cut, misread, pc, local>>

\* The definition changes, a machine that runs does not.
EditXml ==
  /\ edits < MaxEdit
  /\ edits' = edits + 1
  /\ domain' = [domain EXCEPT !.edit = edits + 1]
  /\ UNCHANGED <<current, guest, nets, host, backup, history, pc, local>>

\* Networks marked for it start again, and so does the unit when enabled.
Reboot ==
  /\ vm' = "off" /\ live' = NoXml /\ intruded' = FALSE
  /\ active' = autostart
  /\ loaded' = unit
  /\ table' = IF enabled THEN TableOf(unit) ELSE 0
  /\ Exit
  /\ cut' = (cut \/ pc # "idle")
  /\ UNCHANGED <<current, domain, edits, defined, autostart, nft, script, unit, enabled,
                 backup, settled, misread>>

Next ==
  \/ Apply \/ InstallCutShort \/ RestartFails \/ Stop
  \/ Regenerate \/ StartVm \/ StopVm \/ EditXml \/ Reboot

Spec == Init /\ [][Next]_vars

-----------------------------------------------------------------------------

(* After 04 reports success the machine works and stays isolated, whatever
   earlier runs left half done and across reboots: its networks are defined,
   run, and start at boot, and the isolation table lists its bridges now and
   after the next boot.                                                     *)
AppliedStaysOperational ==
  settled =>
    /\ domain.profile # 0
    /\ NetsOf(domain.profile) \subseteq (defined \cap active \cap autostart)
    /\ table = domain.profile
    /\ enabled /\ TableOf(unit) = domain.profile

(* The host can go down after every step: none leaves behind a unit without the
   rules and the script it makes its table from at the next boot, except where
   the identity of the unit is applied again and cut short as it writes them. *)
UnitCanStart ==
  [][\/ unit' # unit \/ TableOf(unit) = unit => (TableOf(unit) = unit)'
     \/ mem = unit /\ pc \in {"nft", "script"}]_vars

(* No step takes a network away that the defined domain needs, except while
   the same identity is applied again, which makes its networks anew.  The
   removal of the replaced profile's networks in particular never does.     *)
DomainNetworksKept ==
  [][\A n \in NetsOf(domain.profile) :
       (n \in active \cap defined /\ n \notin active' \cap defined')
         => mem = domain.profile /\ pc = "destroy"]_vars

(* A running machine keeps the networks it was started on, whenever it was
   started, except behind 04's look at its state and before the definition. *)
RunningHasNetwork == vm = "on" /\ ~intruded => NetsOf(live.profile) \subseteq active

(* A running machine with an identity is behind the rules for its bridges,
   unless it was started in that part of a run, or a run that was cut short
   came after the last successful one.                                      *)
GuestIsolated ==
  vm = "on" /\ ~intruded /\ live.profile # 0 /\ (settled \/ ~cut) => table = live.profile

(* After 04 reports success no network of another profile is left.  This does
   not hold (README.md, What the models show besides) ...                   *)
OldNetworksGone == settled => defined \cup active \subseteq NetsOf(domain.profile)

(* ... but does as long as no run of 04 is cut short, nor takes the XML of a machine
   that was started in an earlier run for the one that is defined.          *)
OldNetworksRemoved == ~cut /\ ~misread => OldNetworksGone

(* 04 applies a profile to a machine that is shut off: networks, rules and
   definition change under no running machine.  This does not hold.         *)
AppliedShutOff ==
  pc \in NetworkLabels \cup IsolationLabels \cup {"redefine"} => vm = "off"

(* The XML that `virsh define` replaces is in backups/.  This does not hold. *)
BackupCoversReplaced == [][Redefine => domain \in backup]_vars
=============================================================================
