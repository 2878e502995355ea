--------------------------- MODULE DeviceLatency ----------------------------
(***************************************************************************)
(* latency_test and tex_latency_test: the host divides the list among the  *)
(* waves of the kernel, a random pattern in each part, and tells every     *)
(* work item where to start.  The start indexes are in the buffer that the *)
(* kernel returns its result in: the plain kernels write element 0 when a  *)
(* work item ends, the texture kernel writes the item's own element.       *)
(* Indexes are in strides, so that an element is a line.                   *)
(***************************************************************************)
EXTENDS PatternOps, FiniteSets

CONSTANTS
  Launches,    (* records: the kernel, threads, local_size and wave_size   *)
  ListSizes,   (* sizes of the list, in strides                            *)
  MaxLoads     (* chase_iterations                                         *)

VARIABLES
  launch,    (* the kernel and its work items                              *)
  list_size, (* this list                                                  *)
  waveId,    (* the part the host fills next                               *)
  A,         (* the list                                                   *)
  ret,       (* thread_start, then the result buffer                       *)
  host,      (* "check", "fill", "enqueue", "wait", "returned"             *)
  current,   (* current[t]: the index item t is at                         *)
  loads,     (* loads[t]: loads done, NotBegun before the item starts      *)
  seen       (* history: seen[t]: the indexes item t loaded from           *)

items == <<ret, current, loads, seen>>
vars == <<launch, list_size, waveId, A, host, items>>

NotBegun == -1
Threads == 0 .. launch.threads - 1
Waves == 0 .. (launch.threads \div launch.wave_size) - 1
Many == launch.threads > 1
WaveOf(t) == t \div launch.wave_size
Indexes == 0 .. list_size - 1
Garbage == {0, list_size}  (* what an unset variable may hold              *)

\* Only the plain kernels are refused a list that is too short.  With fewer
\* lines than waves a texture's sections would begin inside of a line.
LineForEachWave ==
  launch.kernel = "tex_latency_test" => list_size >= Cardinality(Waves)

Init ==
  /\ launch \in Launches /\ list_size \in ListSizes /\ LineForEachWave
  /\ waveId = 0 /\ host = "check"
  /\ A = [i \in Indexes |-> 0]
  /\ ret \in [Threads -> {0}]
  /\ current = [t \in Threads |-> 0]
  /\ loads = [t \in Threads |-> NotBegun]
  /\ seen = [t \in Threads |-> {}]

\* Mutants: every item begins at the front, or at its own number; a part is
\* one longer.
StartOf_Front(t) == 0
StartOf_Item(t) == t
sub_list_size_Rounded == (list_size \div Cardinality(Waves)) + 1

sub_list_size == list_size \div Cardinality(Waves)
waveId_start(w) == sub_list_size * w

\* "Less than 2 lines will be visited": latency_test returns, while
\* tex_latency_test goes on with a section of a single line.
TooSmall ==
  /\ launch.kernel # "tex_latency_test"
  /\ (IF Many THEN sub_list_size ELSE list_size) < 2

Check ==
  /\ host = "check"
  /\ host' = IF TooSmall THEN "returned" ELSE "fill"
  /\ UNCHANGED <<launch, list_size, waveId, A, items>>

\* A[waveId_start + subIdx] += waveId_start.
Offset(w, pattern) == [i \in DOMAIN pattern |-> pattern[i] + waveId_start(w)]

\* FillPatternArr on one part: whatever pattern rand() makes of it.
FillPart ==
  /\ host = "fill"
  /\ waveId \in Waves
  /\ \E pattern \in Patterns(sub_list_size) :
       A' = [i \in Indexes |->
              IF i - waveId_start(waveId) \in DOMAIN pattern
              THEN Offset(waveId, pattern)[i - waveId_start(waveId)] ELSE A[i]]
  /\ waveId' = waveId + 1
  /\ UNCHANGED <<launch, list_size, host, items>>

\* "make sure all threads in a wave access the same item"
StartOf(t) == waveId_start(WaveOf(t))

\* The items behind the last whole wave copy an element that nobody wrote.
SetStarts ==
  /\ host = "fill" /\ waveId \notin Waves
  /\ ret' \in [Threads -> Indexes \cup Garbage]
  /\ \A t \in Threads : WaveOf(t) \in Waves => ret'[t] = StartOf(t)
  /\ host' = "enqueue"
  /\ UNCHANGED <<launch, list_size, waveId, A, current, loads, seen>>

Enqueue ==
  /\ host = "enqueue"
  /\ host' = "wait"
  /\ UNCHANGED <<launch, list_size, waveId, A, items>>

EnqueueFails ==
  /\ host = "enqueue"
  /\ host' = "returned"
  /\ UNCHANGED <<launch, list_size, waveId, A, items>>

\* The first read of item t: a single item, or a single group of the scalar
\* kernel, begins at the front, the others where the host said.
FirstIndex(t) ==
  CASE launch.kernel = "local_unrolled_latency_test" -> A[0]
    [] launch.kernel = "scalar_unrolled_latency_test" ->
         IF launch.threads > launch.local_size
         THEN ret[launch.local_size * (t \div launch.local_size)] ELSE A[0]
    [] launch.kernel = "unrolled_latency_test" -> IF Many THEN ret[t] ELSE A[0]
    [] launch.kernel = "tex_latency_test" -> IF Many THEN ret[t] ELSE 0

\* In local memory only the first item of each group chases.
Chases(t) ==
  launch.kernel = "local_unrolled_latency_test" => t % launch.local_size = 0

Begin(t) ==
  /\ host = "wait" /\ loads[t] = NotBegun /\ Chases(t)
  /\ current' = [current EXCEPT ![t] = FirstIndex(t)]
  /\ loads' = [loads EXCEPT ![t] = 0]
  /\ UNCHANGED <<launch, list_size, waveId, A, host, ret, seen>>

\* current = A[current]: an index outside reads whatever is there.
Load(t) ==
  /\ loads[t] \in 0 .. MaxLoads - 1
  /\ current' \in {[current EXCEPT ![t] = i] :
                    i \in IF current[t] \in Indexes THEN {A[current[t]]} ELSE Garbage}
  /\ seen' = [seen EXCEPT ![t] = @ \cup {current[t]}]
  /\ loads' = [loads EXCEPT ![t] = @ + 1]
  /\ UNCHANGED <<launch, list_size, waveId, A, host, ret>>

\* The sink: ret[get_global_id(0)] = current.x for textures, otherwise
\* ret[0] = result, a sum that starts from an unset variable.
Sink(t) ==
  IF launch.kernel = "tex_latency_test"
  THEN {[ret EXCEPT ![t] = current[t]]}
  ELSE {[ret EXCEPT ![0] = g] : g \in Garbage}

End(t) ==
  /\ loads[t] = MaxLoads
  /\ ret' \in Sink(t)
  /\ loads' = [loads EXCEPT ![t] = MaxLoads + 1]
  /\ UNCHANGED <<launch, list_size, waveId, A, host, current, seen>>

AllEnded == \A t \in Threads : Chases(t) => loads[t] = MaxLoads + 1

Finish ==
  /\ host = "wait" /\ AllEnded
  /\ host' = "returned"
  /\ UNCHANGED <<launch, list_size, waveId, A, items>>

Returned == host = "returned" /\ UNCHANGED vars

HostNext == Check \/ FillPart \/ SetStarts \/ Enqueue \/ EnqueueFails \/ Finish
ItemNext(t) == Begin(t) \/ Load(t) \/ End(t)
Next == HostNext \/ Returned \/ \E t \in Threads : ItemNext(t)

-----------------------------------------------------------------------------
InChase(t) == loads[t] \in 0 .. MaxLoads

\* Type invariant: no start index and no load is outside the list.
TypeOK ==
  /\ launch \in Launches /\ list_size \in ListSizes
  /\ waveId \in 0 .. Cardinality(Waves)
  /\ A \in [Indexes -> Indexes]
  /\ host \in {"check", "fill", "enqueue", "wait", "returned"}
  /\ loads \in [Threads -> NotBegun .. MaxLoads + 1]
  /\ current \in [Threads -> Indexes]
  /\ seen \in [Threads -> SUBSET Indexes]

\* "make sure all threads in a wave access the same item": items that have
\* done as many loads are at the same index.
WaveSharesItem ==
  \A t, u \in Threads :
    WaveOf(t) = WaveOf(u) /\ loads[t] = loads[u] /\ InChase(t) =>
      current[t] = current[u]

\* "creating a section for each wave": no wave loads what another loads, and an
\* item loads nothing twice before it has loaded its whole part, so that the
\* latency is that of the part's size.
OwnSection ==
  /\ launch.kernel # "local_unrolled_latency_test" =>
       \A t, u \in Threads : WaveOf(t) # WaveOf(u) => seen[t] \intersect seen[u] = {}
  /\ \A t \in Threads :
       InChase(t) =>
         Cardinality(seen[t]) =
           IF loads[t] < sub_list_size THEN loads[t] ELSE sub_list_size

=============================================================================
