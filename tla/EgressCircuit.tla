----------------------------- MODULE EgressCircuit -----------------------------
(***************************************************************************)
(* The circuit of one source through one unit, the addresses behind one    *)
(* exit: record_outcome and probe_transition of proxy/circuit.py, the      *)
(* probe job of probe/job.py, and the acquire, fetch, classify, release    *)
(* loop of fetch/instrumentation.py.  The forwarder that hands addresses   *)
(* out and calls record_outcome on a release is another program.           *)
(*                                                                         *)
(* The circuit is one Redis hash, read with one command and written with   *)
(* another by forwarder and probe job; a write leaves a field that it does *)
(* not name.  Times are kept as what is left of them.                      *)
(***************************************************************************)
EXTENDS Integers, FiniteSetsExt

CONSTANTS
  Workers,      \* calls of instrumented_fetch, with their forwarder requests
  BanThreshold, TransientThreshold, PermanentCycles,
  CooldownSec, TransientCooldownSec, CooldownMaxSec,
  MaxFetches,   \* bound: fetches through the unit
  MaxDeaths     \* bound: runs of the probe job that die after their probe

ASSUME CircuitAssumption ==
  /\ BanThreshold \in Nat \ {0} /\ TransientThreshold \in Nat \ {0}
  /\ PermanentCycles \in Nat \ {0} /\ MaxFetches \in Nat /\ MaxDeaths \in Nat
ASSUME CooldownAssumption ==
  /\ CooldownSec \in Nat \ {0} /\ TransientCooldownSec \in Nat \ {0}
  /\ CooldownMaxSec \in Nat \ {0}

VARIABLES
  circuit,      \* the hash
  active,       \* an address of the unit is active
  stage,        \* where each worker stands
  retried,      \* the second attempt on the same upstream
  outcome,      \* how the last attempt was classified
  read,         \* what record_outcome has read for it
  probe,        \* where the probe job stands
  healthy,      \* what its fetch showed
  scanned,      \* what its probe_transition has read
  started,      \* fetches through the unit so far
  deaths,       \* runs of the probe job that died after their probe
  fails,        \* history: probes that failed since the last that did not
  raced         \* history: a write has buried one it had not read

workerVars == <<stage, retried, outcome, read>>
probeVars  == <<probe, healthy, scanned>>
circuitBounds  == <<started, deaths>>
circuitVars == <<circuit, active, workerVars, probeVars, circuitBounds, fails, raced>>

None    == -1   \* no cooldown_until
Classes == {"ok", "transient", "ban", "blocked", "permanent"}

\* The hash that is not there reads as this.
Fresh == [state |-> "closed", fail |-> 0, transient |-> 0, cooldown |-> None,
          cycles |-> 0, permanent |-> FALSE]

Circuit ==
  [state : {"closed", "open"}, fail : 0 .. BanThreshold, transient : 0 .. TransientThreshold,
   cooldown : Nat \cup {None}, cycles : 0 .. PermanentCycles, permanent : BOOLEAN]

CircuitInit ==
  /\ circuit = Fresh
  /\ active = TRUE
  /\ stage = [w \in Workers |-> "idle"]
  /\ retried = [w \in Workers |-> FALSE]
  /\ outcome = [w \in Workers |-> "ok"]
  /\ read = [w \in Workers |-> Fresh]
  /\ probe = "idle"
  /\ healthy = FALSE
  /\ scanned = Fresh
  /\ started = 0 /\ deaths = 0
  /\ fails = 0
  /\ raced = FALSE

\* Streaks and cycles are compared with their threshold only: they stop there.
Count(n, top) == IF n < top THEN n + 1 ELSE top

\* hset of a mapping that leaves cooldown_until out where it is None.
HSet(st) ==
  [st EXCEPT !.cooldown = IF st.cooldown = None THEN circuit.cooldown ELSE st.cooldown]

--------------------------------------------------------------------------------
(* record_outcome                                                           *)

Trip(st, left) == [st EXCEPT !.state = "open", !.cooldown = left]

AfterBan(st) ==
  LET banned == [st EXCEPT !.fail = Count(@, BanThreshold), !.transient = 0]
  IN IF banned.fail = BanThreshold /\ st.state # "open"
     THEN Trip(banned, CooldownSec) ELSE banned

AfterTransient(st) ==
  LET flaky == [st EXCEPT !.transient = Count(@, TransientThreshold)]
  IN IF flaky.transient = TransientThreshold /\ st.state # "open"
     THEN Trip(flaky, TransientCooldownSec) ELSE flaky

\* An ok closes a half_open circuit; nothing writes that state.
AfterOk(st) == [st EXCEPT !.fail = 0, !.transient = 0]

AfterOutcome(st, class) ==
  CASE class = "ban"       -> AfterBan(st)
    [] class = "transient" -> AfterTransient(st)
    [] class = "ok"        -> AfterOk(st)
    [] OTHER               -> st

--------------------------------------------------------------------------------
(* instrumented_fetch                                                       *)

\* is_selectable; the probe job alone touches an open circuit.
Selectable == circuit.state = "closed" /\ ~circuit.permanent

\* The forwarder answers with an address of a selectable unit.  It may answer with
\* the direct sentinel instead, and does when it is away: such a fetch has no
\* circuit.  An acquisition is a call's first or one after a ban.
Acquire(w) ==
  /\ stage[w] = "idle"
  /\ active /\ Selectable
  /\ started < MaxFetches
  /\ started' = started + 1
  /\ stage' = [stage EXCEPT ![w] = "fetch"]
  /\ UNCHANGED <<circuit, active, retried, outcome, read, probeVars, deaths, fails, raced>>

\* After an attempt: the same upstream once more, or none.
Continue(w, class) ==
  LET retry == class = "transient" /\ ~retried[w]
  IN /\ retried' = [retried EXCEPT ![w] = retry]
     /\ outcome' = [outcome EXCEPT ![w] = "ok"]
     /\ stage' = [stage EXCEPT ![w] = IF retry THEN "fetch" ELSE "idle"]

\* run_upstream and classify.  A permanent failure is neither released nor retried.
Fetch(w) ==
  /\ stage[w] = "fetch"
  /\ \E class \in Classes :
       IF class = "permanent"
       THEN Continue(w, class)
       ELSE /\ outcome' = [outcome EXCEPT ![w] = class]
            /\ stage' = [stage EXCEPT ![w] = "release"]
            /\ UNCHANGED retried
  /\ UNCHANGED <<circuit, active, read, probeVars, circuitBounds, fails, raced>>

\* The forwarder never got the release.
Unreleased(w) ==
  /\ stage[w] = "release"
  /\ Continue(w, outcome[w])
  /\ UNCHANGED <<circuit, active, read, probeVars, circuitBounds, fails, raced>>

ReadCircuit(w) ==
  /\ stage[w] = "release"
  /\ read' = [read EXCEPT ![w] = circuit]
  /\ stage' = [stage EXCEPT ![w] = "write"]
  /\ UNCHANGED <<circuit, active, retried, outcome, probeVars, circuitBounds, fails, raced>>

WriteCircuit(w) ==
  /\ stage[w] = "write"
  /\ circuit' = HSet(AfterOutcome(read[w], outcome[w]))
  /\ raced' = (raced \/ circuit # read[w])
  /\ read' = [read EXCEPT ![w] = Fresh]
  /\ Continue(w, outcome[w])
  /\ UNCHANGED <<active, probeVars, circuitBounds, fails>>

--------------------------------------------------------------------------------
(* The probe job                                                            *)

\* Mutant: the scan looks for half_open, which nothing writes.
ReadyHalfOpen == circuit.state = "half_open" /\ ~circuit.permanent /\ circuit.cooldown = 0

\* open_for_probe: an open circuit past its cooldown.
Ready == circuit.state = "open" /\ ~circuit.permanent /\ circuit.cooldown = 0

\* A cycle lists its candidates, this circuit among them, and probes one after the
\* other; proxy_for_unit finds an active address or the circuit is passed over.
ProbeStart ==
  /\ probe = "idle"
  /\ Ready
  /\ active
  /\ probe' = "ask"
  /\ UNCHANGED <<circuit, active, workerVars, healthy, scanned, circuitBounds, fails, raced>>

\* The cycle ends before the outcome is known.  Only runner.FetchError is caught:
\* whatever else a probe raises, this one or one before it, gets out, and nothing
\* bounds how often.  Some probes do so whenever they fail (errors.FetchError, which
\* nbs_gdp raises, is another class).  A job that is killed here looks the same.
ProbeEscapes ==
  /\ probe = "ask"
  /\ probe' = "idle"
  /\ UNCHANGED <<circuit, active, workerVars, healthy, scanned, circuitBounds, fails, raced>>

\* _probe_one: ok and transient are healthy, and so is a source that has no probe
\* command; ban, blocked and permanent are not.
ProbeAsk ==
  /\ probe = "ask"
  /\ healthy' \in BOOLEAN
  /\ probe' = "read"
  /\ UNCHANGED <<circuit, active, workerVars, scanned, circuitBounds, fails, raced>>

ProbeRead ==
  /\ probe = "read"
  /\ scanned' = circuit
  /\ probe' = "write"
  /\ UNCHANGED <<circuit, active, workerVars, healthy, circuitBounds, fails, raced>>

\* Mutant: a circuit that a probe closes keeps its cycles.
ProbedHealthyCycles(st) ==
  [st EXCEPT !.state = "closed", !.fail = 0, !.transient = 0, !.cooldown = None]

\* Mutant: a circuit that a probe closes keeps its streaks.
ProbedHealthyStreaks(st) ==
  [st EXCEPT !.state = "closed", !.cycles = 0, !.cooldown = None]

ProbedHealthy(st) ==
  [st EXCEPT !.state = "closed", !.fail = 0, !.transient = 0, !.cycles = 0,
             !.cooldown = None]

\* A cooldown that has not elapsed is doubled as a point in time, which is past
\* any cap; one that has becomes twice CooldownSec, each time.
ProbedBad(st) ==
  LET cycles == Count(st.cycles, PermanentCycles)
      left   == IF st.cooldown # 0 THEN CooldownMaxSec
                ELSE Min({2 * CooldownSec, CooldownMaxSec})
  IN [st EXCEPT !.state = "open", !.transient = 0, !.cooldown = left, !.cycles = cycles,
                !.permanent = @ \/ cycles = PermanentCycles]

ProbeWrite ==
  /\ probe = "write"
  /\ LET st == IF healthy THEN ProbedHealthy(scanned) ELSE ProbedBad(scanned)
     IN /\ circuit' = HSet(st)
        /\ probe' = IF st.permanent THEN "retire" ELSE "idle"
  /\ fails' = IF healthy THEN 0 ELSE Count(fails, PermanentCycles)
  /\ raced' = (raced \/ circuit # scanned)
  /\ scanned' = Fresh
  /\ healthy' = FALSE
  /\ UNCHANGED <<active, workerVars, circuitBounds>>

\* _retire_unit: every active address of the unit, in one commit.
Retire ==
  /\ probe = "retire"
  /\ active' = FALSE
  /\ probe' = "idle"
  /\ UNCHANGED <<circuit, workerVars, healthy, scanned, circuitBounds, fails, raced>>

\* After its probe the job is killed, or loses Redis or the database; or the commit
\* of _retire_unit fails.
ProbeDies ==
  /\ probe \in {"read", "write", "retire"}
  /\ deaths < MaxDeaths /\ deaths' = deaths + 1
  /\ probe' = "idle"
  /\ scanned' = Fresh
  /\ healthy' = FALSE
  /\ UNCHANGED <<circuit, active, workerVars, started, fails, raced>>

\* Time passes, for the hash and for what was read of it.
Later(st) == [st EXCEPT !.cooldown = IF @ > 0 THEN @ - 1 ELSE @]

Tick ==
  /\ circuit.cooldown > 0 \/ scanned.cooldown > 0 \/ \E w \in Workers : read[w].cooldown > 0
  /\ circuit' = Later(circuit)
  /\ scanned' = Later(scanned)
  /\ read' = [w \in Workers |-> Later(read[w])]
  /\ UNCHANGED <<active, stage, retried, outcome, probe, healthy, circuitBounds, fails, raced>>

FetchEnds(w) == Fetch(w) \/ Unreleased(w) \/ ReadCircuit(w) \/ WriteCircuit(w)

ProbeStep == ProbeStart \/ ProbeAsk \/ ProbeRead \/ ProbeWrite \/ Retire

CircuitNext ==
  \/ \E w \in Workers : Acquire(w) \/ FetchEnds(w)
  \/ ProbeStep \/ ProbeEscapes \/ ProbeDies
  \/ Tick

CircuitSpec == CircuitInit /\ [][CircuitNext]_circuitVars

\* Fetches end, time passes, and the job runs every minute.  That its probes raise
\* nothing it does not catch is not assumed.
FairCircuitSpec ==
  /\ CircuitSpec
  /\ \A w \in Workers : WF_circuitVars(FetchEnds(w))
  /\ WF_circuitVars(Tick)
  /\ WF_circuitVars(ProbeStep)

--------------------------------------------------------------------------------
\* The hash, its copies in flight, the calls and the probe job keep their types.
CircuitTypeOK ==
  /\ circuit \in Circuit
  /\ active \in BOOLEAN
  /\ stage \in [Workers -> {"idle", "fetch", "release", "write"}]
  /\ retried \in [Workers -> BOOLEAN]
  /\ outcome \in [Workers -> Classes]
  /\ read \in [Workers -> Circuit]
  /\ probe \in {"idle", "ask", "read", "write", "retire"}
  /\ healthy \in BOOLEAN
  /\ scanned \in Circuit
  /\ started \in 0 .. MaxFetches /\ deaths \in 0 .. MaxDeaths
  /\ fails \in 0 .. PermanentCycles
  /\ raced \in BOOLEAN

Sound(st) ==
  /\ st.state = "closed" =>
       st.fail < BanThreshold /\ st.transient < TransientThreshold /\ st.cycles = 0
  /\ st.state = "open" => st.cooldown # None
  /\ st.cycles = PermanentCycles => st.permanent

\* However the writes of forwarder and probe job interleave, the hash makes sense:
\* closed is below every threshold, open has a cooldown (without one the scan of
\* the probe job passes over it for ever), and full cycles are permanent.
CircuitSound == Sound(circuit)

\* An exit is retired after PermanentCycles failed probes in a row, unless a write
\* has buried another.
RetirementEarned == ~raced /\ ~active => fails = PermanentCycles

\* "Recover OPEN circuits and retire permanently-burned proxies" (probe/job.py): an
\* open circuit is closed in the end, or given up, or has no address left.
CircuitRecovers ==
  circuit.state = "open" ~> circuit.state = "closed" \/ circuit.permanent \/ ~active

\* It does not stay open, however fetches, clocks and deaths of the job come in
\* between, unless exceptions of probes end cycle after cycle.
ProbeDecides == CircuitRecovers \/ []<><<ProbeEscapes>>_circuitVars
================================================================================
