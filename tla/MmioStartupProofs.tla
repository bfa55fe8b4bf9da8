--------------------------- MODULE MmioStartupProofs ---------------------------
(***************************************************************************)
(* For every choice of working directories and --mmio, and any number of   *)
(* calls and kills: a bridge neither serves nor obeys what an earlier      *)
(* session left in its file, and a host faults only on a file the bridge   *)
(* has created.                                                            *)
(***************************************************************************)
EXTENDS MmioStartup, TLAPS

StartupTypeOK ==
  /\ files \in [Dirs -> File]
  /\ bdir \in Dirs
  /\ bpc \in {"off", "opened", "sized", "serving", "exited"}
  /\ hpc \in {"search", "call", "wait", "signal", "exited", "failed", "bus error"}
  /\ mapped \in Dirs
  /\ born \subseteq Dirs

\* While the bridge serves, nothing older than it is in its file.
ServesNew ==
  bpc = "serving" => files[bdir].req # "old" /\ files[bdir].done # "old"

\* Only the bridge makes files, and makes them empty.
EmptyIsBorn == \A d \in Dirs : files[d].exists /\ ~files[d].sized => d \in born

\* A host that has left the search has mapped a file, and files stay.
MapsAFile == hpc \in {"call", "wait"} => files[mapped].exists

StartupInv ==
  StartupTypeOK /\ ServesNew /\ EmptyIsBorn /\ MapsAFile /\ FaultOnlyOnNewFile

LEMMA StartupInvInit == StartupInit => StartupInv
<1> SUFFICES ASSUME StartupInit PROVE StartupInv
  OBVIOUS
<1>1. {Absent, Left("old", "none"), Left("none", "old")} \subseteq File
  BY DEF Absent, Left, File
<1>2. files \in [Dirs -> File] /\ \A d \in Dirs : files[d].exists => files[d].sized
  <2>1. files \in [Dirs -> File]
    BY <1>1 DEF StartupInit
  <2>2. \A f \in {Absent, Left("old", "none"), Left("none", "old")} : f.exists => f.sized
    BY DEF Absent, Left
  <2> QED BY <2>1, <2>2 DEF StartupInit
<1>3. bdir \in Dirs /\ mapped \in Dirs
  BY StartupAssumption DEF StartupInit, Dirs
<1> QED
  BY <1>2, <1>3
  DEF StartupInit, StartupInv, StartupTypeOK, ServesNew, EmptyIsBorn, MapsAFile, FaultOnlyOnNewFile

-------------------------------------------------------------------------------
(***************************************************************************)
(* What a step does to one file.                                           *)
(***************************************************************************)
LEMMA FileAfterOpen ==
  ASSUME NEW f \in File
  PROVE  /\ Found(f) \in File /\ Found(f).exists
         /\ Found(f).sized = f.sized
BY DEF File, Found, Aged

\* The host stores new requests and signals and nothing else.
HostStores ==
  /\ files' \in [Dirs -> File]
  /\ \A d \in Dirs : /\ files'[d].exists = files[d].exists
                     /\ files[d].sized => files'[d].sized
                     /\ files'[d].req \in {files[d].req, "new"}
                     /\ files'[d].done \in {files[d].done, "new"}

LEMMA StartupInvBridge ==
  ASSUME StartupInv, BridgeStep
  PROVE  StartupInv'
<1> USE DEF StartupInv, StartupTypeOK, ServesNew, EmptyIsBorn, MapsAFile, FaultOnlyOnNewFile,
            BridgeGoes, hostState
<1>1. CASE BridgeOpen
  <2>1. files[bdir] \in File
    OBVIOUS
  <2>2. /\ files' \in [Dirs -> File]
        /\ \A d \in Dirs : files[d].exists => files'[d].exists
        /\ \A d \in Dirs : files'[d].exists /\ ~files'[d].sized => d \in born'
    BY <1>1, <2>1, FileAfterOpen DEF BridgeOpen
  <2> QED BY <1>1, <2>2 DEF BridgeOpen
<1>2. CASE Truncate
  BY <1>2 DEF Truncate, Set, File
<1>3. CASE Memset
  BY <1>3 DEF Memset, File
<1>4. CASE Serve
  BY <1>4 DEF Serve, Set, File
<1>5. CASE BridgeExit
  BY <1>5 DEF BridgeExit
<1> QED BY <1>1, <1>2, <1>3, <1>4, <1>5 DEF BridgeStep

LEMMA StartupInvHost ==
  ASSUME StartupInv, HostStep
  PROVE  StartupInv'
<1> USE DEF StartupInv, StartupTypeOK, ServesNew, EmptyIsBorn, MapsAFile, FaultOnlyOnNewFile,
            HostGoes, bridgeState
<1>1. CASE TryPath
  BY <1>1 DEF TryPath, Opens
<1>2. CASE NothingFound
  BY <1>2 DEF NothingFound
<1>3. CASE StoreRequest
  <2>1. CASE files[mapped].sized
    <3>1. files' = [files EXCEPT ![mapped] = [@ EXCEPT !.req = "new"]]
      BY <1>3, <2>1 DEF StoreRequest, Set
    <3>2. HostStores
      BY <3>1 DEF HostStores, File
    <3> QED BY <1>3, <2>1, <3>2 DEF StoreRequest, HostStores
  <2>2. CASE ~files[mapped].sized
    BY <1>3, <2>2 DEF StoreRequest
  <2> QED BY <2>1, <2>2
<1>4. CASE CallReturns
  BY <1>4 DEF CallReturns
<1>5. CASE TryDone
  <2>1. CASE Opens
    <3>1. NextDir \in Dirs
          /\ files' = [files EXCEPT ![NextDir] = [@ EXCEPT !.done = "new", !.sized = TRUE]]
      BY <1>5, <2>1 DEF TryDone, Opens
    <3>2. HostStores
      BY <3>1 DEF HostStores, File
    <3> QED BY <1>5, <2>1, <3>2 DEF TryDone, HostStores
  <2>2. CASE ~Opens
    BY <1>5, <2>2 DEF TryDone
  <2> QED BY <2>1, <2>2
<1>6. CASE NoDoneFile
  BY <1>6 DEF NoDoneFile
<1> QED BY <1>1, <1>2, <1>3, <1>4, <1>5, <1>6 DEF HostStep

LEMMA StartupInvStep ==
  ASSUME StartupInv, [StartupNext]_startupVars
  PROVE  StartupInv'
<1>1. CASE Kill
  BY <1>1
  DEF Kill, StartupInv, StartupTypeOK, ServesNew, EmptyIsBorn, MapsAFile, FaultOnlyOnNewFile,
      hostState
<1>2. CASE UNCHANGED startupVars
  BY <1>2
  DEF StartupInv, StartupTypeOK, ServesNew, EmptyIsBorn, MapsAFile, FaultOnlyOnNewFile,
      startupVars, bridgeState, hostState
<1> QED BY <1>1, <1>2, StartupInvBridge, StartupInvHost DEF StartupNext

LEMMA StartupKeepsInv == StartupSpec => []StartupInv
<1>1. StartupInit => StartupInv
  BY StartupInvInit
<1>2. StartupInv /\ [StartupNext]_startupVars => StartupInv'
  BY StartupInvStep
<1> QED BY <1>1, <1>2, PTL DEF StartupSpec

(***************************************************************************)
(* The requests and signals the bridge finds in a region file from an      *)
(* earlier session, its own before a kill included, have no effect: the    *)
(* memset of its main clears them before the loop loads anything.          *)
(***************************************************************************)
THEOREM StartupIgnoresOldSession == StartupSpec => IgnoresOldSession
<1> DEFINE A == /\ Serve => files[bdir].req = "new"
                /\ BridgeExit => files[bdir].done = "new"
<1>1. StartupInv => A
  BY DEF StartupInv, StartupTypeOK, ServesNew, File, Serve, BridgeExit, BridgeGoes
<1>2. StartupInv /\ [StartupNext]_startupVars => [A]_startupVars
  BY <1>1
<1> HIDE DEF A
<1>3. [][A]_startupVars => IgnoresOldSession
  BY DEF A, IgnoresOldSession
<1> QED BY <1>2, <1>3, StartupKeepsInv, PTL DEF StartupSpec

\* try_mmio_path maps a file of any length; the only one too short for an
\* access is one the bridge has opened and not truncated yet.
THEOREM StartupFaultOnlyOnNewFile == StartupSpec => []FaultOnlyOnNewFile
<1>1. StartupInv => FaultOnlyOnNewFile
  BY DEF StartupInv
<1> QED BY <1>1, StartupKeepsInv, PTL

===============================================================================
