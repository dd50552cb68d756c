---------------------- MODULE ApplyTransaction_proofs ----------------------
(***************************************************************************)
(* Proofs about ApplyTransaction for any number of identities, edits and   *)
(* adapters, with and without failures: what 04 has achieved when it       *)
(* reports success, what it takes away from whom, and what a machine keeps *)
(* that runs meanwhile.  The owner starts, stops and edits it at any time. *)
(***************************************************************************)
EXTENDS ApplyTransaction, TLAPS

\* A run of 04 that has changed nothing, and no run.
Still == {"idle"} \cup PreparingLabels

Ready == defined \cap active \cap autostart

\* A process that runs has an identity in memory, and only such a one.
MemLoaded == pc = "idle" <=> mem = 0

\* A run gives up the last one's success before it changes a thing.
SettledIsStill == settled => pc \in Still

\* The loop over the adapters starts with the first.
AtFirstAdapter == pc \in Still => i = 1

\* The networks of the adapters done are ready, the present one is half done.
NetworksMade ==
  /\ pc \in NetworkLabels => \A j \in 1..(i - 1) : <<mem, j>> \in Ready
  /\ pc = "autostart" => Network \in defined
  /\ pc = "start" => Network \in defined \cap autostart
  /\ pc \in IsolationLabels \cup FinishingLabels => NetsOf(mem) \subseteq Ready

\* No network runs that 04 did not see running or has not started itself, so
\* that one it is to define anew is not running.
OnlyListedRun ==
  /\ pc \in NetworkLabels => active \subseteq listed.active \cup {<<mem, j>> : j \in 1..(i - 1)}
  /\ pc \in NetworkLabels \ {"destroy"} => Network \notin active
  /\ pc \in {"drop", "forget"} => active \subseteq listed.active

\* A network that is to survive a reboot does.
BootsAgain == autostart \subseteq defined /\ active \cap defined \subseteq autostart

\* What 04 removes in the end belongs to the profile it replaced.
OnlyStaleListed ==
  pc \in {"drop", "forget"} => listed.all \subseteq NetsOf(dump.profile) \ NetsOf(mem)

\* Rules, script and unit are there from their steps on, the unit is read,
\* enabled and restarted in this order, and then the domain is defined.
Isolation ==
  /\ pc \in (IsolationLabels \ {"nft"}) \cup FinishingLabels => mem \in nft
  /\ pc \in (IsolationLabels \ {"nft", "script"}) \cup FinishingLabels => mem \in script
  /\ pc \in {"reload", "enable", "restart"} \cup FinishingLabels => unit = mem
  /\ pc \in {"enable", "restart"} \cup FinishingLabels => loaded = mem
  /\ pc \in {"restart"} \cup FinishingLabels => enabled
  /\ pc \in FinishingLabels => table = mem
  /\ pc \in FinishingLabels \ {"redefine"} => domain.profile = mem

\* The profile 04 read is the one it replaces, or history says otherwise.
DumpedProfile == pc \in Unguarded => misread \/ dump.profile = domain.profile

\* Nothing but a run that was cut short leaves a profile without its success.
KnownSuccess == ~cut /\ pc \in Still => domain.profile = 0 \/ settled

\* Where the networks that exist are from while no run was cut short.
KnownNetworks ==
  ~cut /\ ~misread =>
    /\ pc \in Still => defined \cup active \subseteq NetsOf(domain.profile)
    /\ pc \in NetworkLabels \cup IsolationLabels \cup {"redefine", "obsolete"}
         => defined \cup active \subseteq NetsOf(dump.profile) \cup NetsOf(mem)
    /\ pc \in {"drop", "forget"} => defined \cup active \subseteq NetsOf(mem) \cup listed.all
    /\ pc = "forget" => \A n \in listed.all : n[2] = i => n \notin active

\* A machine that was not started where 04 no longer looks runs with the profile
\* that is defined and has its networks, and 04 is not where it may change them.
LiveKept ==
  vm = "on" /\ ~intruded =>
    /\ live.profile = domain.profile
    /\ NetsOf(live.profile) \subseteq active
    /\ pc \notin Unguarded

NetworkInv == /\ MemLoaded /\ AtFirstAdapter /\ NetworksMade
              /\ OnlyListedRun /\ BootsAgain /\ OnlyStaleListed

Inv == /\ TypeOK
       /\ NetworkInv
       /\ SettledIsStill /\ Isolation /\ DumpedProfile
       /\ AppliedStaysOperational
       /\ KnownSuccess /\ KnownNetworks
       /\ LiveKept

-----------------------------------------------------------------------------

\* The networks of an identity are one for each adapter.
LEMMA NetsOfMembers ==
  ASSUME NEW g, NEW n
  PROVE  n \in NetsOf(g) <=> g # 0 /\ \E j \in Index : n = <<g, j>>
  BY DEF NetsOf

(* In the beginning there is nothing. *)
LEMMA InitInv == Init => Inv
<1> SUFFICES ASSUME Init PROVE Inv
  OBVIOUS
<1>1. TypeOK
  <2>1. NoXml \in Xml /\ NoList \in [all : SUBSET Net, active : SUBSET Net] /\ 1 \in Index
    BY MaxGenAssumption, MaxEditAssumption, AdaptersAssumption DEF Xml, NoXml, NoList, Index
  <2>2. 0 \in 0..MaxGen /\ 0 \in 0..MaxEdit
    BY MaxGenAssumption, MaxEditAssumption
  <2> QED BY <2>1, <2>2 DEF Init, TypeOK, Labels
<1>2. NetworkInv /\ SettledIsStill /\ Isolation /\ DumpedProfile
  BY DEF Init, NetworkInv, MemLoaded, AtFirstAdapter, NetworksMade, OnlyListedRun, BootsAgain, OnlyStaleListed,
         SettledIsStill, Isolation, DumpedProfile,
         Unguarded, NetworkLabels, IsolationLabels, FinishingLabels
<1>3. AppliedStaysOperational /\ KnownSuccess /\ KnownNetworks
  BY DEF Init, AppliedStaysOperational, KnownSuccess, KnownNetworks, NoXml,
         NetworkLabels, IsolationLabels
<1>4. LiveKept
  BY DEF Init, LiveKept
<1> QED BY <1>1, <1>2, <1>3, <1>4 DEF Inv

(* Every step keeps the variables in their ranges; MemLoaded is what makes the
   network and the files a command writes those of an identity.             *)
LEMMA NextType == TypeOK /\ MemLoaded /\ [Next]_vars => TypeOK' /\ MemLoaded'
<1> SUFFICES ASSUME TypeOK, MemLoaded, [Next]_vars PROVE TypeOK' /\ MemLoaded'
  OBVIOUS
<1>g. pc # "idle" => mem \in Gens /\ Network \in Net
  BY DEF TypeOK, MemLoaded, Gens, Net, Network
<1>i. 1 \in Index /\ i + 1 \in Nat
  BY AdaptersAssumption DEF TypeOK, Index
<1> USE DEF TypeOK, MemLoaded, Step, Labels, PreparingLabels, NetworkLabels, IsolationLabels,
            FinishingLabels, host, nets, guest, local, history
<1>1. CASE LoadArtifacts \/ DumpXml \/ CheckShutOff \/ Backup
  BY <1>1 DEF LoadArtifacts, DumpXml, CheckShutOff, Backup
<1>2. ASSUME Exit PROVE /\ pc' \in Labels /\ mem' \in 0..MaxGen /\ dump' \in Xml
                        /\ listed' \in [all : SUBSET Net, active : SUBSET Net]
                        /\ i' \in Index /\ MemLoaded'
  BY <1>2, <1>i, MaxGenAssumption, MaxEditAssumption DEF Exit, Xml, NoXml, NoList
<1>3. CASE RefuseRunning
  BY <1>3, <1>2 DEF RefuseRunning
<1>4. CASE ListNetworks
  BY <1>4 DEF ListNetworks, NetListing
<1>5. CASE NetDestroy \/ NetUndefine
  BY <1>5 DEF NetDestroy, NetUndefine
<1>6. CASE NetDefine \/ NetAutostart
  BY <1>6, <1>g DEF NetDefine, NetAutostart
<1>7. CASE NetStart
  <2>1. i' \in Index /\ listed' \in [all : SUBSET Net, active : SUBSET Net]
    BY <1>7, <1>i, AdaptersAssumption DEF NetStart, Index, NoList
  <2> QED BY <1>7, <1>g, <2>1 DEF NetStart
<1>8. CASE InstallRules \/ InstallScript \/ InstallUnit
  BY <1>8, <1>g DEF InstallRules, InstallScript, InstallUnit
<1>9. CASE DaemonReload \/ EnableUnit
  BY <1>9 DEF DaemonReload, EnableUnit
<1>10. \A u \in 0..MaxGen : TableOf(u) \in 0..MaxGen
  BY MaxGenAssumption DEF TableOf
<1>11. CASE RestartUnit
  BY <1>11, <1>10 DEF RestartUnit
<1>12. CASE Redefine
  BY <1>12 DEF Redefine, Xml
<1>13. CASE ListObsolete
  BY <1>13 DEF ListObsolete, NetListing
<1>14. ASSUME NEW n \in Net, DestroyObsolete(n) PROVE TypeOK' /\ MemLoaded'
  BY <1>14 DEF DestroyObsolete, Net
<1>15. ASSUME NEW n \in Net, UndefineObsolete(n) PROVE TypeOK' /\ MemLoaded'
  BY <1>15 DEF UndefineObsolete
<1>16. CASE Report
  BY <1>16, <1>2 DEF Report
<1>17. CASE RestartFails
  BY <1>17, <1>2, MaxGenAssumption DEF RestartFails
<1>18. CASE Stop
  BY <1>18, <1>2 DEF Stop
<1>19. CASE Regenerate
  BY <1>19, MaxGenAssumption DEF Regenerate
<1>20. CASE StartVm \/ StopVm
  <2>1. NoXml \in Xml
    BY MaxGenAssumption, MaxEditAssumption DEF Xml, NoXml
  <2>2. intruded' \in BOOLEAN
    <3>1. (pc \in Unguarded) \in BOOLEAN
      OBVIOUS
    <3>2. intruded' = (pc \in Unguarded) \/ intruded' = FALSE
      BY <1>20 DEF StartVm, StopVm
    <3> QED BY <3>1, <3>2, Zenon
  <2>3. settled' \in BOOLEAN /\ cut' \in BOOLEAN /\ misread' \in BOOLEAN
    BY <1>20 DEF StartVm, StopVm
  <2>4. {settled, cut, misread, intruded}' \subseteq BOOLEAN
    BY <2>2, <2>3, Zenon
  <2>5. vm' \in {"off", "on"} /\ live' \in Xml
    BY <1>20, <2>1 DEF StartVm, StopVm
  <2>6. UNCHANGED <<current, domain, edits, nets, host, backup, pc, local>>
    BY <1>20 DEF StartVm, StopVm
  <2> QED BY <2>4, <2>5, <2>6
<1>21. CASE EditXml
  BY <1>21, MaxEditAssumption DEF EditXml, Xml
<1>22. CASE Reboot
  <2>1. NoXml \in Xml
    BY MaxGenAssumption, MaxEditAssumption DEF Xml, NoXml
  <2>2. cut' \in BOOLEAN
    BY <1>22, Zenon DEF Reboot
  <2>3. settled' \in BOOLEAN /\ intruded' \in BOOLEAN /\ misread' \in BOOLEAN
    BY <1>22 DEF Reboot
  <2>4. {settled, cut, misread, intruded}' \subseteq BOOLEAN
    BY <2>2, <2>3, Zenon
  <2>5. /\ vm' \in {"off", "on"} /\ live' \in Xml
        /\ loaded' \in 0..MaxGen /\ table' \in 0..MaxGen /\ active' \subseteq Net
    BY <1>22, <2>1, <1>10, MaxGenAssumption DEF Reboot
  <2>6. UNCHANGED <<current, domain, edits, defined, autostart, nft, script, unit, enabled, backup>>
    BY <1>22 DEF Reboot
  <2>7. Exit
    BY <1>22 DEF Reboot
  <2> QED BY <2>4, <2>5, <2>6, <2>7, <1>2
<1>23. CASE UNCHANGED vars
  BY <1>23 DEF vars
<1>24. CASE InstallCutShort
  BY <1>24, <1>2, MaxGenAssumption DEF InstallCutShort
<1> QED BY <1>1, <1>3, <1>4, <1>5, <1>6, <1>7, <1>8, <1>9, <1>11, <1>12, <1>13, <1>14, <1>15,
           <1>16, <1>17, <1>18, <1>19, <1>20, <1>21, <1>22, <1>23, <1>24 DEF Next, Apply

(* The networks: each command prepares what the next one relies on, and what
   is not of this run changes nothing that the run relies on.               *)
LEMMA NextNetworks == TypeOK /\ NetworkInv /\ [Next]_vars => NetworkInv'
<1> SUFFICES ASSUME TypeOK, NetworkInv, [Next]_vars PROVE NetworkInv'
  OBVIOUS
<1>t. /\ MemLoaded' /\ (pc # "idle" => mem # 0)
      /\ i \in Nat \ {0} /\ i <= Adapters /\ Adapters \in Nat
      /\ listed = [all |-> listed.all, active |-> listed.active]
  BY NextType, AdaptersAssumption DEF NetworkInv, MemLoaded, TypeOK, Index
<1> DEFINE Rest == AtFirstAdapter /\ NetworksMade /\ OnlyListedRun /\ BootsAgain /\ OnlyStaleListed
<1> SUFFICES Rest'
  BY <1>t DEF NetworkInv
<1> USE <1>t
    DEF NetworkInv, AtFirstAdapter, NetworksMade, OnlyListedRun, BootsAgain, OnlyStaleListed,
        Ready, Network, Step, Still, PreparingLabels, NetworkLabels, IsolationLabels, FinishingLabels, host, nets, guest, local, history
<1>1. CASE LoadArtifacts \/ DumpXml \/ CheckShutOff \/ Backup
  BY <1>1 DEF LoadArtifacts, DumpXml, CheckShutOff, Backup
<1>2. CASE RefuseRunning \/ Report \/ InstallCutShort \/ RestartFails \/ Stop \/ Reboot
  BY <1>2 DEF RefuseRunning, Report, InstallCutShort, RestartFails, Stop, Reboot, Exit
<1>3. CASE ListNetworks
  BY <1>3 DEF ListNetworks, NetListing
<1>4. CASE NetDestroy
  BY <1>4 DEF NetDestroy
<1>5. CASE NetUndefine
  BY <1>5 DEF NetUndefine
<1>6. CASE NetDefine
  BY <1>6 DEF NetDefine
<1>7. CASE NetAutostart
  BY <1>7 DEF NetAutostart
<1>8. CASE NetStart
  BY <1>8, NetsOfMembers DEF NetStart, Index
<1>9. CASE InstallRules \/ InstallScript \/ InstallUnit \/ DaemonReload \/ EnableUnit
           \/ RestartUnit \/ Redefine
  BY <1>9 DEF InstallRules, InstallScript, InstallUnit, DaemonReload, EnableUnit, RestartUnit,
              Redefine
<1>10. CASE ListObsolete
  BY <1>10 DEF ListObsolete, NetListing
<1>11. ASSUME NEW n \in Net, DestroyObsolete(n) PROVE Rest'
  BY <1>11 DEF DestroyObsolete
<1>12. ASSUME NEW n \in Net, UndefineObsolete(n) PROVE Rest'
  BY <1>12 DEF UndefineObsolete
<1>13. CASE Regenerate \/ StartVm \/ StopVm \/ EditXml
  BY <1>13 DEF Regenerate, StartVm, StopVm, EditXml
<1>14. CASE UNCHANGED vars
  BY <1>14 DEF vars
<1> QED BY <1>1, <1>2, <1>3, <1>4, <1>5, <1>6, <1>7, <1>8, <1>9, <1>10, <1>11, <1>12, <1>13,
           <1>14 DEF Next, Apply

(* The isolation: a command leaves behind what Isolation asks for at the next
   one, and only a run that has got to its end vouches for it.              *)
LEMMA NextIsolation ==
  Inv /\ [Next]_vars => (SettledIsStill /\ Isolation /\ DumpedProfile)'
<1> DEFINE Part == SettledIsStill /\ Isolation /\ DumpedProfile
<1> SUFFICES ASSUME Inv, [Next]_vars PROVE Part'
  OBVIOUS
<1>t. /\ domain \in Xml /\ dump \in Xml /\ (pc # "idle" => mem # 0)
      /\ nft \subseteq Gens /\ script \subseteq Gens
  BY DEF Inv, TypeOK, NetworkInv, MemLoaded
<1> USE <1>t
    DEF Inv, SettledIsStill, Isolation, DumpedProfile, Still, Step, Unguarded, Labels, PreparingLabels,
        NetworkLabels, IsolationLabels, FinishingLabels, host, nets, guest, local, history
<1>1. CASE LoadArtifacts \/ DumpXml \/ CheckShutOff \/ Backup
  BY <1>1 DEF LoadArtifacts, DumpXml, CheckShutOff, Backup
<1>2. CASE RefuseRunning \/ Report \/ InstallCutShort \/ RestartFails \/ Stop \/ Reboot
  BY <1>2 DEF RefuseRunning, Report, InstallCutShort, RestartFails, Stop, Reboot, Exit
<1>3. CASE ListNetworks \/ NetDestroy \/ NetUndefine \/ NetDefine \/ NetAutostart
  BY <1>3 DEF ListNetworks, NetDestroy, NetUndefine, NetDefine, NetAutostart
<1>4. CASE NetStart
  BY <1>4 DEF NetStart
<1>5. CASE InstallRules
  BY <1>5 DEF InstallRules
<1>6. CASE InstallScript
  BY <1>6 DEF InstallScript
<1>7. CASE InstallUnit
  BY <1>7 DEF InstallUnit
<1>8. CASE DaemonReload
  BY <1>8 DEF DaemonReload
<1>9. CASE EnableUnit
  BY <1>9 DEF EnableUnit
<1>10. CASE RestartUnit
  BY <1>10 DEF RestartUnit, TableOf
<1>11. CASE Redefine
  BY <1>11 DEF Redefine
<1>12. CASE ListObsolete
  BY <1>12 DEF ListObsolete
<1>13. ASSUME NEW n \in Net, DestroyObsolete(n) \/ UndefineObsolete(n) PROVE Part'
  BY <1>13 DEF DestroyObsolete, UndefineObsolete
<1>14. CASE Regenerate \/ StartVm \/ StopVm
  BY <1>14 DEF Regenerate, StartVm, StopVm
<1>15. CASE EditXml
  <2>1. domain'.profile = domain.profile
    BY <1>15 DEF EditXml, Xml
  <2> QED BY <1>15, <2>1 DEF EditXml
<1>16. CASE UNCHANGED vars
  BY <1>16 DEF vars
<1> QED BY <1>1, <1>2, <1>3, <1>4, <1>5, <1>6, <1>7, <1>8, <1>9, <1>10, <1>11, <1>12, <1>13,
           <1>14, <1>15, <1>16 DEF Next, Apply

(* Success lasts: nothing outside a run that got beyond its preparations
   disturbs what the last complete one achieved.                            *)
LEMMA NextOperational == Inv /\ [Next]_vars => AppliedStaysOperational'
<1> SUFFICES ASSUME Inv, [Next]_vars, settled' PROVE AppliedStaysOperational'
  BY DEF AppliedStaysOperational
<1>1. CASE Report
  <2>1. pc = "drop" /\ pc # "idle" /\ UNCHANGED <<domain, nets, host>>
    BY <1>1 DEF Report
  <2>2. /\ domain.profile = mem /\ mem # 0 /\ table = mem /\ unit = mem /\ enabled
        /\ mem \in nft /\ mem \in script
    BY <2>1 DEF Inv, NetworkInv, MemLoaded, Isolation, IsolationLabels, FinishingLabels
  <2>3. NetsOf(mem) \subseteq Ready
    BY <2>1 DEF Inv, NetworkInv, NetworksMade, FinishingLabels
  <2> QED BY <2>1, <2>2, <2>3 DEF AppliedStaysOperational, Ready, TableOf, nets, host
<1>2. CASE Reboot
  <2>1. settled /\ pc \in Still
    BY <1>2 DEF Reboot, Inv, SettledIsStill
  <2>2. UNCHANGED <<domain, defined, autostart, nft, script, unit, enabled>>
    BY <1>2 DEF Reboot
  <2>3. active' = autostart /\ table' = TableOf(unit)
    BY <1>2, <2>1 DEF Reboot, Inv, AppliedStaysOperational
  <2> QED BY <2>1, <2>2, <2>3 DEF Inv, AppliedStaysOperational, TableOf
<1>3. CASE EditXml
  <2>1. domain'.profile = domain.profile /\ UNCHANGED <<nets, host, settled>>
    BY <1>3 DEF EditXml, Xml, Inv, TypeOK, history
  <2> QED BY <2>1 DEF Inv, AppliedStaysOperational, TableOf, nets, host
<1>4. CASE UNCHANGED <<domain, nets, host, settled>>
  BY <1>4 DEF Inv, AppliedStaysOperational, TableOf, nets, host
<1>5. CASE Next /\ ~settled
  BY <1>5, <1>1 DEF Next, Apply, LoadArtifacts, DumpXml, CheckShutOff, RefuseRunning, Backup,
       ListNetworks, NetDestroy, NetUndefine, NetDefine, NetAutostart, NetStart,
       InstallRules, InstallScript, InstallUnit, DaemonReload, EnableUnit, RestartUnit,
       Redefine, ListObsolete, DestroyObsolete, UndefineObsolete, InstallCutShort, RestartFails, Stop,
       Regenerate, StartVm, StopVm, EditXml, Reboot, history
<1>6. CASE Next /\ settled /\ ~Report /\ ~Reboot /\ ~EditXml
  <2>1. pc \in {"idle", "dump", "state", "backup", "list"}
    BY <1>6 DEF Inv, SettledIsStill, Still, PreparingLabels
  <2> QED
    BY <1>4, <1>6, <2>1 DEF Next, Apply, LoadArtifacts, DumpXml, CheckShutOff, RefuseRunning,
       Backup, ListNetworks, NetDestroy, NetUndefine, NetDefine, NetAutostart, NetStart,
       InstallRules, InstallScript, InstallUnit, DaemonReload, EnableUnit, RestartUnit,
       Redefine, ListObsolete, DestroyObsolete, UndefineObsolete, InstallCutShort, RestartFails, Stop,
       Regenerate, StartVm, StopVm, history, Step
<1>7. CASE UNCHANGED vars
  BY <1>7, <1>4 DEF vars, history
<1> QED BY <1>1, <1>2, <1>3, <1>5, <1>6, <1>7

(* Without a run that was cut short every network is accounted for: it is the
   defined profile's, the new one's, or on the list of what is to go.       *)
LEMMA NextKnown == Inv /\ [Next]_vars => (KnownSuccess /\ KnownNetworks)'
<1> DEFINE Part == KnownSuccess /\ KnownNetworks
<1> SUFFICES ASSUME Inv, [Next]_vars, ~cut' PROVE Part'
  BY DEF KnownSuccess, KnownNetworks
<1>t. /\ domain \in Xml /\ dump \in Xml /\ pc \in Labels /\ (pc # "idle" => mem # 0)
      /\ \A n : n \in NetsOf(mem) <=> mem # 0 /\ \E j \in Index : n = <<mem, j>>
      /\ i \in Index
      /\ listed = [all |-> listed.all, active |-> listed.active]
  BY NetsOfMembers DEF Inv, TypeOK, NetworkInv, MemLoaded
<1> USE <1>t
    DEF Inv, KnownSuccess, KnownNetworks, Still, Step, Unguarded, Labels, PreparingLabels, NetworkLabels,
        IsolationLabels, FinishingLabels, host, nets, guest, local, history
<1>1. CASE LoadArtifacts \/ DumpXml \/ CheckShutOff \/ Backup
  BY <1>1 DEF LoadArtifacts, DumpXml, CheckShutOff, Backup
<1>2. CASE ListNetworks
  BY <1>2 DEF ListNetworks, DumpedProfile
<1>3. CASE NetDestroy \/ NetUndefine
  BY <1>3 DEF NetDestroy, NetUndefine
<1>4. CASE NetDefine \/ NetAutostart
  BY <1>4 DEF NetDefine, NetAutostart, Network
<1>5. CASE NetStart
  BY <1>5 DEF NetStart, Network
<1>6. CASE InstallRules \/ InstallScript \/ InstallUnit \/ DaemonReload \/ EnableUnit
           \/ RestartUnit
  BY <1>6 DEF InstallRules, InstallScript, InstallUnit, DaemonReload, EnableUnit, RestartUnit
<1>7. CASE Redefine
  BY <1>7 DEF Redefine
<1>8. CASE ListObsolete
  BY <1>8 DEF ListObsolete, NetListing
<1>9. ASSUME NEW n \in Net, DestroyObsolete(n) PROVE Part'
  <2>1. \A m \in listed.all : m[2] = n[2] => m = n
    <3>1. \A m \in listed.all : \E j \in Index : m = <<dump.profile, j>>
      BY <1>9, NetsOfMembers DEF DestroyObsolete, NetworkInv, OnlyStaleListed
    <3> QED BY <1>9, <3>1 DEF DestroyObsolete
  <2>2. active' = active \ {n}
    BY <1>9 DEF DestroyObsolete, NetworkInv, OnlyListedRun
  <2> QED BY <1>9, <2>1, <2>2 DEF DestroyObsolete
<1>10. ASSUME NEW n \in Net, UndefineObsolete(n) PROVE Part'
  BY <1>10 DEF UndefineObsolete
<1>11. CASE Report
  <2>1. domain.profile = mem /\ listed.all = {} /\ settled'
    BY <1>11 DEF Report, Isolation
  <2> QED BY <1>11, <2>1 DEF Report, Exit
<1>12. CASE RefuseRunning
  BY <1>12 DEF RefuseRunning, Exit
<1>13. CASE InstallCutShort \/ RestartFails \/ Stop
  BY <1>13 DEF InstallCutShort, RestartFails, Stop
<1>14. CASE Reboot
  BY <1>14 DEF Reboot, Exit, NetworkInv, BootsAgain
<1>15. CASE Regenerate \/ StartVm \/ StopVm
  BY <1>15 DEF Regenerate, StartVm, StopVm
<1>16. CASE EditXml
  <2>1. domain'.profile = domain.profile
    BY <1>16 DEF EditXml, Xml
  <2> QED BY <1>16, <2>1 DEF EditXml
<1>17. CASE UNCHANGED vars
  BY <1>17 DEF vars
<1> QED BY <1>1, <1>2, <1>3, <1>4, <1>5, <1>6, <1>7, <1>8, <1>9, <1>10, <1>11, <1>12, <1>13,
           <1>14, <1>15, <1>16, <1>17 DEF Next, Apply

(* A running machine: 04 changes networks and definition only where it has seen
   it off, and the machine comes to run there only by being started there.     *)
LEMMA NextLive == Inv /\ [Next]_vars => LiveKept'
<1> SUFFICES ASSUME Inv, [Next]_vars, vm' = "on", ~intruded' PROVE LiveKept'
  BY DEF LiveKept
<1>t. vm \in {"off", "on"} /\ pc \in Labels /\ domain \in Xml
  BY DEF Inv, TypeOK
<1> USE <1>t
    DEF LiveKept, Step, Unguarded, Labels, PreparingLabels, NetworkLabels, IsolationLabels,
        FinishingLabels, host, nets, guest, local, history
<1>1. CASE LoadArtifacts \/ DumpXml \/ CheckShutOff \/ Backup
  BY <1>1 DEF Inv, LoadArtifacts, DumpXml, CheckShutOff, Backup
<1>2. CASE RefuseRunning \/ Report \/ InstallCutShort \/ RestartFails \/ Stop \/ Reboot
  BY <1>2 DEF Inv, RefuseRunning, Report, InstallCutShort, RestartFails, Stop, Reboot, Exit
<1>3. CASE ListNetworks \/ NetDestroy \/ NetUndefine \/ NetDefine \/ NetAutostart
  BY <1>3 DEF Inv, ListNetworks, NetDestroy, NetUndefine, NetDefine, NetAutostart
<1>4. CASE NetStart
  BY <1>4 DEF Inv, NetStart
<1>5. CASE InstallRules \/ InstallScript \/ InstallUnit \/ DaemonReload \/ EnableUnit
           \/ RestartUnit
  BY <1>5 DEF Inv, InstallRules, InstallScript, InstallUnit, DaemonReload, EnableUnit, RestartUnit
<1>6. CASE Redefine \/ ListObsolete
  BY <1>6 DEF Inv, Redefine, ListObsolete
<1>7. ASSUME NEW n \in Net, DestroyObsolete(n) \/ UndefineObsolete(n) PROVE LiveKept'
  <2>1. n \in listed.all /\ pc \in {"drop", "forget"}
    BY <1>7 DEF DestroyObsolete, UndefineObsolete
  <2>2. domain.profile = mem /\ n \notin NetsOf(mem)
    BY <2>1 DEF Inv, Isolation, NetworkInv, OnlyStaleListed
  <2>3. live.profile = mem /\ NetsOf(mem) \subseteq active
    BY <1>7, <2>2 DEF Inv, DestroyObsolete, UndefineObsolete
  <2>4. active \ {n} \subseteq active'
    BY <1>7 DEF DestroyObsolete, UndefineObsolete
  <2>5. UNCHANGED <<live, domain>> /\ pc' \in {"drop", "forget"}
    BY <1>7 DEF DestroyObsolete, UndefineObsolete
  <2> QED BY <2>2, <2>3, <2>4, <2>5
<1>8. CASE Regenerate \/ StartVm \/ StopVm
  BY <1>8 DEF Inv, Regenerate, StartVm, StopVm
<1>9. CASE EditXml
  <2>1. domain'.profile = domain.profile
    BY <1>9 DEF EditXml, Xml
  <2> QED BY <1>9, <2>1 DEF Inv, EditXml
<1>10. CASE UNCHANGED vars
  BY <1>10 DEF Inv, vars
<1> QED BY <1>1, <1>2, <1>3, <1>4, <1>5, <1>6, <1>7, <1>8, <1>9, <1>10 DEF Next, Apply

(* All of it together. *)
LEMMA NextInv == Inv /\ [Next]_vars => Inv'
  BY NextType, NextNetworks, NextIsolation, NextOperational, NextKnown, NextLive
  DEF Inv, NetworkInv

-----------------------------------------------------------------------------

(* What 04 relies on at each command, and what it has achieved after the last,
   in every state, whoever fails and whatever the owner does.               *)
THEOREM Invariant == Spec => []Inv
BY InitInv, NextInv, PTL DEF Spec

(* The variables stay in their ranges: no command is run for no identity. *)
THEOREM TypeCorrect == Spec => []TypeOK
BY Invariant, PTL DEF Inv

(* Once 04 has reported success the machine can start and is isolated, whatever
   cut runs left before, however often the host reboots, also when the owner
   starts, stops and edits it at any time.                                  *)
THEOREM StaysOperational == Spec => []AppliedStaysOperational
BY Invariant, PTL DEF Inv

(* As long as no run was cut short or misled about the profile it replaces,
   success leaves no network of another profile.                            *)
THEOREM NothingOldLeft == Spec => []OldNetworksRemoved
<1>1. Inv => OldNetworksRemoved
  <2> SUFFICES ASSUME Inv, ~cut, ~misread, settled PROVE defined \cup active \subseteq NetsOf(domain.profile)
    BY DEF OldNetworksRemoved, OldNetworksGone
  <2>1. pc \in Still
    BY DEF Inv, SettledIsStill
  <2> QED BY <2>1 DEF Inv, KnownNetworks
<1> QED BY <1>1, Invariant, PTL

(* A step takes a network of the defined domain away only where the same
   identity is applied again; a reboot and the final removal never do.      *)
THEOREM NetworksKept == Spec => DomainNetworksKept
<1> DEFINE Kept == \A n \in NetsOf(domain.profile) :
                     (n \in active \cap defined /\ n \notin active' \cap defined')
                       => mem = domain.profile /\ pc = "destroy"
<1>1. Inv /\ [Next]_vars => [Kept]_vars
  <2> SUFFICES ASSUME Inv, [Next]_vars, NEW n \in NetsOf(domain.profile),
                      n \in active \cap defined, n \notin active' \cap defined'
               PROVE  mem = domain.profile /\ pc = "destroy"
    OBVIOUS
  <2>1. CASE NetDestroy
    <3>1. n = <<mem, i>>
      BY <2>1 DEF NetDestroy, Network
    <3> QED BY <2>1, <3>1, NetsOfMembers DEF NetDestroy, Step
  <2>2. CASE NetUndefine
    <3>1. n = Network /\ pc = "undefine"
      BY <2>2 DEF NetUndefine, Step
    <3> QED BY <3>1 DEF Inv, NetworkInv, OnlyListedRun, NetworkLabels
  <2>3. ASSUME NEW m \in Net, DestroyObsolete(m) \/ UndefineObsolete(m) PROVE FALSE
    <3>1. m \in listed.all /\ pc \in {"drop", "forget"} /\ m = n
      BY <2>3 DEF DestroyObsolete, UndefineObsolete, Step
    <3>2. domain.profile = mem
      BY <3>1 DEF Inv, Isolation, FinishingLabels
    <3> QED BY <3>1, <3>2 DEF Inv, NetworkInv, OnlyStaleListed
  <2>4. CASE Reboot
    BY <2>4 DEF Reboot, Inv, NetworkInv, BootsAgain
  <2>5. CASE UNCHANGED vars
    BY <2>5 DEF vars, nets
  <2> QED BY <2>1, <2>2, <2>3, <2>4, <2>5
      DEF Next, Apply, LoadArtifacts, DumpXml, CheckShutOff, RefuseRunning, Backup, ListNetworks,
          NetDefine, NetAutostart, NetStart, InstallRules, InstallScript, InstallUnit,
          DaemonReload, EnableUnit, RestartUnit, Redefine, ListObsolete, Report, InstallCutShort, RestartFails,
          Stop, Regenerate, StartVm, StopVm, EditXml, nets
<1> QED BY <1>1, Invariant, PTL DEF DomainNetworksKept, Spec

(* After every step the unit that is installed can make its table at the next
   boot: its files come before it, and only an identity that is applied again
   is rewritten.                                                            *)
THEOREM UnitStarts == Spec => UnitCanStart
<1> DEFINE Startable == \/ unit' # unit \/ TableOf(unit) = unit => (TableOf(unit) = unit)'
                        \/ mem = unit /\ pc \in {"nft", "script"}
<1>1. Inv /\ [Next]_vars => [Startable]_vars
  <2> SUFFICES ASSUME Inv, [Next]_vars PROVE Startable
    OBVIOUS
  <2>1. CASE InstallRules \/ InstallScript
    BY <2>1 DEF InstallRules, InstallScript, TableOf
  <2>2. CASE InstallUnit
    <3>1. mem \in nft /\ mem \in script
      BY <2>2 DEF Inv, Isolation, IsolationLabels, InstallUnit, Step
    <3> QED BY <2>2, <3>1 DEF InstallUnit, TableOf
  <2>3. CASE InstallCutShort
    <3>1. CASE pc = "unit"
      BY <2>3, <3>1 DEF InstallCutShort, TableOf
    <3>2. CASE pc \in {"nft", "script"} /\ mem # unit
      <4>1. unit' = unit
        BY <2>3, <3>2 DEF InstallCutShort
      <4>2. (unit \in nft' <=> unit \in nft) /\ (unit \in script' <=> unit \in script)
        BY <2>3, <3>2 DEF InstallCutShort
      <4> QED BY <4>1, <4>2 DEF TableOf
    <3> QED BY <2>3, <3>1, <3>2 DEF InstallCutShort
  <2>4. CASE UNCHANGED <<nft, script, unit>>
    BY <2>4 DEF TableOf
  <2> QED BY <2>1, <2>2, <2>3, <2>4
      DEF Next, Apply, LoadArtifacts, DumpXml, CheckShutOff, RefuseRunning, Backup, ListNetworks,
          NetDestroy, NetUndefine, NetDefine, NetAutostart, NetStart, DaemonReload, EnableUnit,
          RestartUnit, Redefine, ListObsolete, DestroyObsolete, UndefineObsolete, Report,
          RestartFails, Stop, Regenerate, StartVm, StopVm, EditXml, Reboot, vars, host
<1> QED BY <1>1, Invariant, PTL DEF UnitCanStart, Spec

(* A machine that runs has the networks it was started on, whatever 04 and the
   owner do, unless it was started behind 04's look at its state.           *)
THEOREM RunningKeepsNetwork == Spec => []RunningHasNetwork
<1>1. Inv => RunningHasNetwork
  BY DEF Inv, LiveKept, RunningHasNetwork
<1> QED BY <1>1, Invariant, PTL

(* It is behind the rules for its bridges, also while 04 is at work, unless a
   cut run came after the last success.                                     *)
THEOREM RunningIsolated == Spec => []GuestIsolated
<1>1. Inv => GuestIsolated
  <2> SUFFICES ASSUME Inv, vm = "on", ~intruded, live.profile # 0, settled \/ ~cut
               PROVE  table = live.profile
    BY DEF GuestIsolated
  <2>1. live.profile = domain.profile /\ pc \in Labels \ Unguarded
    BY DEF Inv, TypeOK, LiveKept
  <2>2. CASE settled
    BY <2>1, <2>2 DEF Inv, AppliedStaysOperational
  <2>3. CASE pc \in Still
    BY <2>1, <2>2, <2>3 DEF Inv, KnownSuccess
  <2>4. CASE pc \in FinishingLabels \ {"redefine"}
    BY <2>1, <2>4 DEF Inv, Isolation
  <2> QED BY <2>1, <2>3, <2>4 DEF Labels, Unguarded, Still, FinishingLabels
<1> QED BY <1>1, Invariant, PTL
=============================================================================
