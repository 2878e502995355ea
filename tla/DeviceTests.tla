----------------------------- MODULE DeviceTests ----------------------------
(***************************************************************************)
(* main of opencltest.c and of svmtest.cpp: the program runs the one test  *)
(* it was asked for, an exchange (DeviceExchange, which this module        *)
(* extends) or a pointer chase (DeviceLatency).                            *)
(***************************************************************************)
EXTENDS DeviceExchange

CONSTANTS
  Launches, ListSizes, MaxLoads,   (* of the chases: see DeviceLatency     *)
  MaxItems                         (* no test has more work items          *)

\* wave_size divides the threads: otherwise there are items without a start.
ASSUME DeviceTestsAssumption ==
  /\ FailingTests \subseteq Tests /\ "chase" \notin Tests
  /\ {CuCount, MaxIterations} \subseteq Nat \ {0, 1} /\ MaxFailures \in Nat
  /\ CuCount <= MaxItems
  /\ ListSizes \subseteq Nat \ {0} /\ MaxLoads \in Nat
  /\ \A l \in Launches :
       /\ l.kernel \in {"unrolled_latency_test", "scalar_unrolled_latency_test",
                       "local_unrolled_latency_test", "tex_latency_test"}
       /\ l.threads \in 1 .. MaxItems
       /\ l.wave_size \in 1 .. l.threads /\ l.threads % l.wave_size = 0
       /\ l.local_size \in 1 .. l.threads /\ l.threads % l.local_size = 0

VARIABLES
  launch,      (* the kernel of a chase and its work items                 *)
  list_size,   (* the list's size, in lines                                *)
  waveId,      (* the part the host fills next                             *)
  A,           (* the list                                                 *)
  ret,         (* the start indexes, then the result buffer                *)
  enqueuing,   (* where the host is                                        *)
  chasing,     (* where the work items are in the list                     *)
  loads,       (* how many loads they have done                            *)
  seen         (* history: the indexes loaded                              *)

chaseVars == <<launch, list_size, waveId, A, ret, enqueuing, chasing, loads, seen>>
mainVars == <<vars, chaseVars>>

Chase == INSTANCE DeviceLatency WITH host <- enqueuing, current <- chasing

None == "none"  (* a variable the test does not have                       *)

Exchanging == test # "chase"
Chasing == test = "chase"

MainInit ==
  \/ /\ Init
     /\ launch = None /\ list_size = None /\ waveId = None /\ A = None
     /\ ret = None /\ enqueuing = None /\ chasing = None /\ loads = None
     /\ seen = None
  \/ /\ Chase!Init
     /\ Chasing /\ host = None /\ iterations = None /\ pair = None
     /\ word = None /\ current = None /\ pc = None /\ buffer = None
     /\ measured = None /\ failures = None

MainHost ==
  \/ Exchanging /\ HostNext /\ UNCHANGED chaseVars
  \/ Chasing /\ Chase!HostNext /\ UNCHANGED vars

MainItem(i) ==
  \/ Exchanging /\ i \in Items /\ ItemNext(i) /\ UNCHANGED chaseVars
  \/ Chasing /\ i \in Chase!Threads /\ Chase!ItemNext(i) /\ UNCHANGED vars

AllReturned == "returned" \in {host, enqueuing} /\ UNCHANGED mainVars

MainNext == MainHost \/ AllReturned \/ \E i \in 0 .. MaxItems - 1 : MainItem(i)

MainSpec == MainInit /\ [][MainNext]_mainVars

\* The host's thread runs, and the device runs its work items side by side
\* ("hoping each thread/workgroup lands on a different CU").
FairMainSpec ==
  /\ MainSpec
  /\ WF_mainVars(MainHost)
  /\ \A i \in 0 .. MaxItems - 1 : WF_mainVars(MainItem(i))

-----------------------------------------------------------------------------
\* Type invariant of the test that runs: no index or word is out of range.
MainTypeOK == IF Exchanging THEN TypeOK ELSE Chase!TypeOK

\* "make sure all threads in a wave access the same item" (latency_test).
WaveSharesItem == Chasing => Chase!WaveSharesItem

\* "creating a section for each wave" (latency_test, tex_latency_test): two
\* waves never load the same line, and an item loads its whole section before
\* it loads a line again.
OwnSection == Chasing => Chase!OwnSection

\* Every test returns, a submission that fails included.
Returns == <>("returned" \in {host, enqueuing})

=============================================================================
