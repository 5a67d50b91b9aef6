------------------------- MODULE MCHeartbeatService -------------------------
(***************************************************************************)
(* A heartbeat service; the configuration from which such a service reads  *)
(* its worker count, line by line; the HealthMonitor to which services     *)
(* report, and its parser of /proc/meminfo.  The service sees of its file  *)
(* only whether it parses, and nothing in the repository hands it a        *)
(* monitor, so the four share no variable; each behaviour shows one of     *)
(* them while the others rest.                                             *)
(***************************************************************************)
EXTENDS HeartbeatService

TwoHeartbeats == <<"heartbeat_0", "heartbeat_1">>

CONSTANTS
  Collector, Name, State, Root, Disk,           \* see HealthMonitor
  InitialRoot, InitialDisk, MaxChanges, None,
  LineKey, Value, MaxLines, Modulus,            \* see MemInfo
  Key, File, Content, NoFile, NoText            \* see Configuration

\* A file with a repeated key, one that drops a key, and broken ones.
PairLine(k, text) == [kind |-> "pair", key |-> k, value |-> text]
OtherLine(is) == [kind |-> is, key |-> "", value |-> "none"]
Contents ==
  [repeats |-> <<PairLine("k1", "off"), OtherLine("empty"),
                 PairLine("k2", "12x"), PairLine("k1", "yes")>>,
   drops |-> <<PairLine("k2", "1")>>,
   broken |-> <<PairLine("k2", "0"), OtherLine("no_separator")>>,
   nameless |-> <<OtherLine("empty_key"), PairLine("k1", "1")>>]

VARIABLES
  shown,                              \* which of the four this behaviour shows
  services, procRoot, diskPath,       \* see HealthMonitor
  step, snapshot, copied, errors, stale, during, latest, changes,
  lines, position, total, available, ended,    \* see MemInfo
  onDisk, values, parsed, at, last, source, cut    \* see Configuration

healthVars == <<services, procRoot, diskPath, step, snapshot, copied, errors, stale,
                during, latest, changes>>
memoryVars == <<lines, position, total, available, ended>>

configVars == <<onDisk, values, parsed, at, last, source, cut>>

Health == INSTANCE HealthMonitor

Memory == INSTANCE MemInfo WITH Key <- LineKey

Config == INSTANCE Configuration

\* What rests is in one of its initial states.
MCInit ==
  /\ shown \in {"service", "configuration", "health", "memory"}
  /\ ProcessInit
  /\ shown # "service" => kind = "sample" /\ config = CHOOSE c \in ConfigSelection : TRUE
  /\ Config!Init
  /\ shown # "configuration" => onDisk = "drops"
  /\ Health!Init
  /\ IF shown = "memory" THEN Memory!Init
     ELSE /\ lines = <<>> /\ position = Memory!WordAt(1, 1)
          /\ total = Memory!NotFound /\ available = Memory!NotFound /\ ended = FALSE

ServiceShown(A) ==
  shown = "service" /\ A /\ UNCHANGED <<configVars, healthVars, memoryVars, shown>>

MCNext ==
  \/ ServiceShown(ProcessNext)
  \/ /\ shown = "configuration" /\ Config!Next
     /\ UNCHANGED <<processVars, healthVars, memoryVars, shown>>
  \/ /\ shown = "health" /\ Health!Next
     /\ UNCHANGED <<processVars, configVars, memoryVars, shown>>
  \/ /\ shown = "memory" /\ Memory!Next
     /\ UNCHANGED <<processVars, configVars, healthVars, shown>>

mcVars == <<processVars, configVars, healthVars, memoryVars, shown>>

\* The fairness of HeartbeatService, where it is shown.
MCFairness ==
  /\ WF_mcVars(ServiceShown(MainStep))
  /\ \A w \in HeartbeatNames : WF_mcVars(ServiceShown(HeartbeatEnds(w)))

MCSpec == MCInit /\ [][MCNext]_mcVars /\ MCFairness

\* Keys loaded from one file answer alike through KeyValueConfiguration and
\* DatabaseConfiguration, unless a read of its store fails, which gives the
\* caller's default; and a reload replaces the memory as a whole.
ConfiguredAlike == Config!ConfiguredAlike

\* Values change at the end of a load only, and by files that parse only.
WholeFilesOnly == Config!WholeFilesOnly

\* A snapshot shows one moment of the monitor, each service once with its last
\* report, and an error for what it lacks; meminfo is never misread.
HealthTrue == Health!SnapshotsTrue /\ Memory!MemoryTrue
=============================================================================
