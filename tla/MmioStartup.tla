------------------------------ MODULE MmioStartup ------------------------------
(***************************************************************************)
(* How host and bridge find each other: the region is whichever            *)
(* mmio_region.bin each of them opens.  The bridge opens the one in its    *)
(* working directory, creates it when it is missing, and clears it before  *)
(* it serves; it may be killed and started again.  The host tries a list   *)
(* of relative paths, and at its end tries another list to find the file   *)
(* it signals TB_DONE in.  Files survive both processes.                   *)
(*                                                                         *)
(* One step is one system call, or one access to the region; what requests *)
(* and answers say is MmioCosim's subject.  A directory is the sequence of *)
(* its names below the repository's root.  found and born are history.     *)
(***************************************************************************)
EXTENDS Naturals, Sequences

CONSTANTS
  HostDirs,     \* the working directories the host may be started in
  BridgeDirs,   \* and the bridge
  Explicit,     \* what --mmio or MMIO_PATH may name first: <<>> or <<dir>>
  CALLS,        \* bound: the calls of one run of the host
  KILLS         \* bound: how often the bridge is killed

SW == <<"sw">>
SW_HW == <<"sw", "sw_hw">>
OBJ_DIR == <<"sw", "sw_hw", "obj_dir">>
Dirs == {<<>>, SW, SW_HW, OBJ_DIR}

ASSUME StartupAssumption ==
  /\ HostDirs \subseteq Dirs /\ BridgeDirs \subseteq Dirs
  /\ CALLS \in Nat \ {0} /\ KILLS \in Nat

\* A candidate "../sub/mmio_region.bin" with up times "..".
At(up, sub) == [up |-> up, sub |-> sub]

InitCandidates ==
  << At(0, <<"sw_hw">>), At(0, <<"sw_hw", "obj_dir">>),
     At(0, SW_HW), At(0, OBJ_DIR),
     At(0, <<>>), At(0, <<"obj_dir">>),
     At(1, <<>>), At(1, <<"obj_dir">>),
     At(1, <<"sw_hw">>), At(1, <<"sw_hw", "obj_dir">>), At(2, <<"sw_hw">>),
     At(0, <<>>), At(0, SW), At(0, SW_HW), At(0, OBJ_DIR), At(0, <<"sw_hw">>) >>

DoneCandidates ==
  << At(0, <<"sw_hw">>), At(0, <<"sw_hw", "obj_dir">>),
     At(1, <<"sw_hw">>), At(1, <<"sw_hw", "obj_dir">>),
     At(0, SW_HW), At(0, OBJ_DIR), At(0, <<>>), At(0, <<"obj_dir">>) >>

\* The directory a candidate leads to, seen from cwd.
DirOf(cwd, c) == SubSeq(cwd, 1, Len(cwd) - c.up) \o c.sub

VARIABLES
  files,      \* per directory: the file, as far as it matters here
  bdir, bpc, kills,               \* the bridge
  hdir, hpc, todo, mapped, calls, \* the host; todo: the candidates still to try
  found,      \* how the host came by the file of the bridge that serves it:
              \* "search", "named" by --mmio or MMIO_PATH, or "no"
  born        \* the directories whose file the bridge created

bridgeState == <<bdir, bpc, kills>>
hostState == <<hdir, hpc, todo, mapped, calls>>
startupVars == <<files, bridgeState, hostState, found, born>>

\* sized: long enough to be accessed.  req and done say whether a request or
\* signal is stored, and whether since the bridge started ("new") or not.
File == [exists : BOOLEAN, sized : BOOLEAN, req : {"none", "old", "new"},
         done : {"none", "old", "new"}]
Absent == [exists |-> FALSE, sized |-> FALSE, req |-> "none", done |-> "none"]
Left(r, d) == [exists |-> TRUE, sized |-> TRUE, req |-> r, done |-> d]

StartupInit ==
  /\ files \in [Dirs -> {Absent, Left("old", "none"), Left("none", "old")}]
  /\ bdir \in BridgeDirs /\ bpc = "off" /\ kills = 0
  /\ hdir \in HostDirs /\ hpc = "search" /\ mapped = <<>> /\ calls = 0
  /\ \E named \in Explicit :
       todo = [i \in DOMAIN named |-> At(Len(hdir), named[i])] \o InitCandidates
  /\ found = "no" /\ born = {}

\* The next candidate is a file that exists.
NextDir == DirOf(hdir, Head(todo))
Opens == Head(todo).up <= Len(hdir) /\ NextDir \in Dirs /\ files[NextDir].exists

Set(d, field, v) == files' = [files EXCEPT ![d][field] = v]

(***************************************************************************)
(* The bridge: mmio_map_or_die, memset, then the polling loop.             *)
(***************************************************************************)
BridgeGoes(from, to) ==
  /\ bpc = from /\ bpc' = to
  /\ UNCHANGED <<bdir, kills, hostState, found>>

\* What is stored when the bridge starts is an earlier session's to it.
Aged(v) == IF v = "new" THEN "old" ELSE v
Found(f) == [f EXCEPT !.exists = TRUE, !.req = Aged(@), !.done = Aged(@)]

\* Fault: the file emptied by the open.
BridgeOpenEmpties ==
  /\ BridgeGoes("off", "opened")
  /\ files' = [files EXCEPT ![bdir] = [Found(@) EXCEPT !.sized = FALSE]]
  /\ born' = IF files[bdir].exists THEN born ELSE born \cup {bdir}

BridgeOpen ==
  /\ BridgeGoes("off", "opened")
  /\ files' = [files EXCEPT ![bdir] = Found(@)]
  /\ born' = IF files[bdir].exists THEN born ELSE born \cup {bdir}

Truncate ==
  /\ BridgeGoes("opened", "sized")
  /\ Set(bdir, "sized", TRUE)
  /\ UNCHANGED born

\* Fault: the region served as it was found.
SkipMemset ==
  /\ BridgeGoes("sized", "serving")
  /\ UNCHANGED <<files, born>>

Memset ==
  /\ BridgeGoes("sized", "serving")
  /\ files' = [files EXCEPT ![bdir].req = "none", ![bdir].done = "none"]
  /\ UNCHANGED born

\* Accepts or refuses, and answers (also an iteration that loaded TB_DONE
\* before the host set it).
Serve ==
  /\ BridgeGoes("serving", "serving")
  /\ files[bdir].req # "none"
  /\ Set(bdir, "req", "none")
  /\ UNCHANGED born

BridgeExit ==
  /\ BridgeGoes("serving", "exited")
  /\ files[bdir].done # "none"
  /\ UNCHANGED <<files, born>>

BridgeStep == BridgeOpen \/ Truncate \/ Memset \/ Serve \/ BridgeExit

\* Ctrl-c at any moment; the next bridge starts from the beginning.
Kill ==
  /\ bpc \in {"opened", "sized", "serving"} /\ kills < KILLS
  /\ bpc' = "off" /\ kills' = kills + 1 /\ found' = "no"
  /\ UNCHANGED <<files, bdir, hostState, born>>

(***************************************************************************)
(* The host.                                                               *)
(***************************************************************************)
HostGoes(from, to) ==
  /\ hpc = from /\ hpc' = to
  /\ UNCHANGED <<hdir, bridgeState, born>>

\* try_mmio_path: opens without O_CREAT, and maps whatever the length is.
TryPath ==
  /\ todo # <<>>
  /\ IF Opens
     THEN /\ HostGoes("search", "call")
          /\ mapped' = NextDir
          /\ found' = IF NextDir # bdir \/ bpc # "serving" THEN "no"
                      ELSE IF Len(todo) > Len(InitCandidates) THEN "named" ELSE "search"
          /\ UNCHANGED todo
     ELSE /\ HostGoes("search", "search")
          /\ todo' = Tail(todo)
          /\ UNCHANGED <<mapped, found>>
  /\ UNCHANGED <<files, calls>>

NothingFound ==
  /\ HostGoes("search", "failed") /\ todo = <<>>
  /\ UNCHANGED <<files, todo, mapped, calls, found>>

\* A call stores its request; beyond the end of an empty file it faults.
StoreRequest ==
  /\ IF files[mapped].sized
     THEN HostGoes("call", "wait") /\ Set(mapped, "req", "new")
     ELSE HostGoes("call", "bus error") /\ UNCHANGED files
  /\ UNCHANGED <<todo, mapped, calls, found>>

\* The answer, or the timeout, and the next call or the end of the tests.
CallReturns ==
  /\ HostGoes("wait", IF calls + 1 < CALLS THEN "call" ELSE "signal")
  /\ calls' = calls + 1
  /\ todo' = IF hpc' = "signal" THEN DoneCandidates ELSE todo
  /\ UNCHANGED <<files, mapped, found>>

\* Fault: TB_DONE skipped where init_mmio_flexible found the region late.
TryDoneFirstOnly ==
  /\ hpc = "signal" /\ todo # <<>>
  /\ IF Opens
     THEN Set(NextDir, "done", "new")
     ELSE UNCHANGED files
  /\ HostGoes("signal", "exited")
  /\ todo' = Tail(todo)
  /\ UNCHANGED <<mapped, calls, found>>

TryDone ==
  /\ hpc = "signal" /\ todo # <<>>
  /\ IF Opens
     THEN /\ files' = [files EXCEPT ![NextDir].done = "new", ![NextDir].sized = TRUE]
          /\ HostGoes("signal", "exited")
     ELSE UNCHANGED files /\ HostGoes("signal", "signal")
  /\ todo' = Tail(todo)
  /\ UNCHANGED <<mapped, calls, found>>

\* No candidate opened: the host ends without a signal.
NoDoneFile ==
  /\ HostGoes("signal", "exited") /\ todo = <<>>
  /\ UNCHANGED <<files, todo, mapped, calls, found>>

HostStep == TryPath \/ NothingFound \/ StoreRequest \/ CallReturns \/ TryDone \/ NoDoneFile

StartupNext == BridgeStep \/ Kill \/ HostStep

StartupSpec == StartupInit /\ [][StartupNext]_startupVars

\* Two processes of a preemptive scheduler; nobody has to kill the bridge.
FairStartupSpec == StartupSpec /\ WF_startupVars(BridgeStep) /\ WF_startupVars(HostStep)

-------------------------------------------------------------------------------
(***************************************************************************)
(* Properties.                                                             *)
(***************************************************************************)

\* Nothing an earlier session left behind has an effect, neither at the
\* first start nor after a kill: the bridge serves only requests stored
\* since it started, and exits only on a signal stored since then.
IgnoresOldSession ==
  [][/\ Serve => files[bdir].req = "new"
     /\ BridgeExit => files[bdir].done = "new"]_startupVars

\* The host faults only on a file the bridge has created and not yet
\* truncated to its length; one that was there before is safe to map.
FaultOnlyOnNewFile == hpc = "bus error" => mapped \in born

\* One of the paths TB_DONE is tried at leads to the bridge's file.
SignalPath ==
  \E i \in DOMAIN DoneCandidates :
    DoneCandidates[i].up <= Len(hdir) /\ DirOf(hdir, DoneCandidates[i]) = bdir

\* The host looks for the file to signal in along another list, in another
\* order, than the one it found the region with.  Still, if that list leads
\* to the bridge at all, a host that found the serving bridge by the default
\* search stops it, whatever other files there are to signal in, unless the
\* bridge is killed before.  The two premises are needed: in sw/sw_hw/obj_dir,
\* which the search's comment names, no path leads to a bridge in sw/sw_hw,
\* and a host that was given a path may signal an older file; in both cases
\* the bridge never exits.
HostStopsBridge ==
  found = "search" /\ SignalPath ~> bpc = "exited" \/ found = "no"

===============================================================================
