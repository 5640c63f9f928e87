------------------------------ MODULE Metrics ------------------------------
(***************************************************************************)
(* metrics.c of new_ProcessPool: the registry of latency trackers, timers  *)
(* that record into them with atomic operations and compare-and-swap       *)
(* loops, a histogram whose buckets are under a mutex and whose totals are *)
(* not, and the resets, which are a series of stores.                      *)
(*                                                                         *)
(* Each atomic operation is a step, and so is each critical section.  The  *)
(* counters of the registry are trackers with a count alone, and the       *)
(* predefined metrics_task_* functions are calls of these operations.      *)
(***************************************************************************)
EXTENDS Integers, Sequences, FiniteSets, FiniteSetsExt

CONSTANTS
    Recorders,          \* threads that call metrics_*
    Names, LongNames,   \* names of trackers; those of more than 63 characters
    MaxLatencies,       \* METRICS_MAX_LATENCIES
    Values,             \* measured values
    Boundaries,         \* bucket_boundaries of the histogram, ascending
    UINT64_MAX,
    MaxCalls            \* bound: calls made

ASSUME MetricsAssumption ==
    /\ IsFiniteSet(Recorders)
    /\ LongNames \subseteq Names /\ MaxLatencies \in Nat /\ MaxCalls \in Nat
    /\ UINT64_MAX \in Nat /\ Values \subseteq 1 .. UINT64_MAX - 1
    /\ Boundaries \in Seq(Nat) /\ Boundaries # << >>

VARIABLES
    names,          \* names of the registered trackers, as stored
    trk,            \* tracker -> [count, total, min, max]
    buckets,        \* hist->values
    hcount,         \* hist->total_count
    reg_mutex,      \* metrics_reset_all holds g_metrics.mutex
    mpc, id, value, \* thread -> step, tracker, value it records
    cur,            \* thread -> current_min or current_max
    all,            \* thread -> it is inside metrics_reset_all
    calls,
    ref,            \* tracker -> what it would be if a recording were one step
    beyond,         \* observed values behind the last boundary
    mixed           \* trackers (0: the histogram) a reset of which overlapped
                    \* a recording, since their last undisturbed reset

metricsVars == <<names, trk, buckets, hcount, reg_mutex, mpc, id, value, cur,
                 all, calls, ref, beyond, mixed>>
hist == <<buckets, hcount>>
ghost == <<ref, beyond, mixed>>

Trackers == 1 .. MaxLatencies
Fresh == [count |-> 0, total |-> 0, min |-> UINT64_MAX, max |-> 0]

MetricsInit ==
    /\ names = << >> /\ trk = [i \in Trackers |-> Fresh]
    /\ buckets = [b \in DOMAIN Boundaries |-> 0] /\ hcount = 0
    /\ reg_mutex = FALSE
    /\ mpc = [t \in Recorders |-> "idle"] /\ id = [t \in Recorders |-> 0]
    /\ value = [t \in Recorders |-> 0] /\ cur = [t \in Recorders |-> 0]
    /\ all = [t \in Recorders |-> FALSE] /\ calls = 0
    /\ ref = [i \in Trackers |-> Fresh] /\ beyond = 0 /\ mixed = {}

-----------------------------------------------------------------------------
(* A local of t, which is forgotten when the call returns. *)
Local(f, t) == [f EXCEPT ![t] = IF mpc'[t] = "idle" THEN 0 ELSE @]
StepTo(t, l) == mpc' = [mpc EXCEPT ![t] = l]
Begin(t) == mpc[t] = "idle" /\ calls < MaxCalls /\ calls' = calls + 1

(* strncpy of a long name stores something else. *)
Stored(n) == IF n \in LongNames THEN "cut" ELSE n

RECORDING == {"count", "total", "loadmin", "casmin", "loadmax", "casmax"}
RESETTING == {"rcount", "rtotal", "rmin", "rmax"}
OBSERVING == {"htotal"}
HRESETTING == {"hrbuckets", "hrtotal"}
Inside(i, L) == {t \in Recorders : mpc[t] \in L /\ (i = 0 \/ id[t] = i)}

(* metrics_latency_register: a full table is reported before the name is    *)
(* looked for.                                                              *)
Register(n, i) ==
    /\ ~reg_mutex
    /\ \/ Len(names) = MaxLatencies /\ i = 0 /\ UNCHANGED names
       \/ /\ Len(names) < MaxLatencies /\ i \in DOMAIN names /\ names[i] = n
          /\ \A j \in 1 .. i - 1 : names[j] # n
          /\ UNCHANGED names
       \/ /\ Len(names) < MaxLatencies /\ \A j \in DOMAIN names : names[j] # n
          /\ names' = Append(names, Stored(n)) /\ i = Len(names')

(* perf_timer_start; the timer is not used when the registry has no place. *)
PerfTimerStart(t) ==
    /\ Begin(t)
    /\ \E n \in Names, i \in 0 .. MaxLatencies :
        /\ Register(n, i) /\ id' = [id EXCEPT ![t] = i]
        /\ StepTo(t, IF i = 0 THEN "idle" ELSE "timer")
    /\ UNCHANGED <<trk, hist, reg_mutex, value, cur, all, ghost>>

(* perf_timer_end, which calls metrics_latency_record *)
PerfTimerEnd(t) ==
    /\ mpc[t] = "timer" /\ StepTo(t, "count")
    /\ \E x \in Values : value' = [value EXCEPT ![t] = x]
    /\ mixed' = mixed \cup {i \in {id[t]} : Inside(i, RESETTING) # {}}
    /\ UNCHANGED <<names, trk, hist, reg_mutex, id, cur, all, calls, ref, beyond>>

RecordAdd(t) ==
    \/ /\ mpc[t] = "count" /\ trk' = [trk EXCEPT ![id[t]].count = @ + 1]
       /\ StepTo(t, "total")
    \/ /\ mpc[t] = "total" /\ trk' = [trk EXCEPT ![id[t]].total = @ + value[t]]
       /\ StepTo(t, "loadmin")

RecordLoad(t) ==
    \/ /\ mpc[t] = "loadmin" /\ cur' = [cur EXCEPT ![t] = trk[id[t]].min]
       /\ StepTo(t, "casmin")
    \/ /\ mpc[t] = "loadmax" /\ cur' = [cur EXCEPT ![t] = trk[id[t]].max]
       /\ StepTo(t, "casmax")

(* Slip: the minimum is stored without the comparison. *)
RecordMinStore(t) ==
    /\ mpc[t] = "casmin"
    /\ IF value[t] < cur[t] THEN trk' = [trk EXCEPT ![id[t]].min = value[t]]
       ELSE UNCHANGED trk
    /\ StepTo(t, "loadmax") /\ UNCHANGED cur

(* The loop for the minimum: a compare-and-swap that fails, also for no     *)
(* reason (it is the weak form), leaves the value it found in current_min.  *)
RecordMin(t) ==
    /\ mpc[t] = "casmin"
    /\ \/ value[t] >= cur[t] /\ StepTo(t, "loadmax") /\ UNCHANGED <<trk, cur>>
       \/ /\ value[t] < cur[t] /\ trk[id[t]].min = cur[t]
          /\ trk' = [trk EXCEPT ![id[t]].min = value[t]]
          /\ StepTo(t, "loadmax") /\ UNCHANGED cur
       \/ /\ value[t] < cur[t] /\ cur' = [cur EXCEPT ![t] = trk[id[t]].min]
          /\ UNCHANGED <<trk, mpc>>

(* The same for the maximum, with which the call ends. *)
RecordMax(t) ==
    /\ mpc[t] = "casmax"
    /\ \/ /\ value[t] <= cur[t] /\ StepTo(t, "idle") /\ UNCHANGED trk
          /\ cur' = [cur EXCEPT ![t] = 0]
       \/ /\ value[t] > cur[t] /\ trk[id[t]].max = cur[t]
          /\ trk' = [trk EXCEPT ![id[t]].max = value[t]]
          /\ StepTo(t, "idle") /\ cur' = [cur EXCEPT ![t] = 0]
       \/ /\ value[t] > cur[t] /\ cur' = [cur EXCEPT ![t] = trk[id[t]].max]
          /\ UNCHANGED <<trk, mpc>>

Record(t) ==
    /\ \/ RecordAdd(t) /\ UNCHANGED cur
       \/ RecordLoad(t) /\ UNCHANGED trk
       \/ RecordMin(t) \/ RecordMax(t)
    /\ ref' = IF mpc'[t] = "idle"
              THEN [ref EXCEPT ![id[t]] =
                      [count |-> @.count + 1, total |-> @.total + value[t],
                       min |-> Min({@.min, value[t]}), max |-> Max({@.max, value[t]})]]
              ELSE ref
    /\ id' = Local(id, t) /\ value' = Local(value, t)
    /\ UNCHANGED <<names, hist, reg_mutex, all, calls, beyond, mixed>>

-----------------------------------------------------------------------------
(* A reset of tracker i begins: undisturbed unless a recording is under     *)
(* way; recordings that begin later see to `mixed' themselves.              *)
BeginReset(t, i) ==
    /\ id' = [id EXCEPT ![t] = i] /\ StepTo(t, "rcount")
    /\ mixed' = IF Inside(i, RECORDING \cup RESETTING) = {}
                THEN mixed \ {i} ELSE mixed \cup {i}

BeginHistReset(t) ==
    /\ StepTo(t, "hrbuckets") /\ id' = [id EXCEPT ![t] = 0]
    /\ mixed' = IF Inside(0, OBSERVING \cup HRESETTING) = {}
                THEN mixed \ {0} ELSE mixed \cup {0}

(* metrics_latency_reset *)
LatencyReset(t) ==
    /\ Begin(t) /\ \E i \in DOMAIN names : BeginReset(t, i)
    /\ UNCHANGED <<names, trk, hist, reg_mutex, value, cur, all, ref, beyond>>

(* metrics_reset_all: every tracker, then the histogram, under the mutex. *)
ResetAll(t) ==
    /\ Begin(t) /\ ~reg_mutex
    /\ IF names = << >> THEN BeginHistReset(t) ELSE BeginReset(t, 1)
    /\ reg_mutex' = TRUE /\ all' = [all EXCEPT ![t] = TRUE]
    /\ UNCHANGED <<names, trk, hist, value, cur, ref, beyond>>

(* One of the four stores, to field f. *)
ResetStore(t, f, l) ==
    /\ trk' = [trk EXCEPT ![id[t]][f] = Fresh[f]] /\ StepTo(t, l)
    /\ id' = Local(id, t) /\ UNCHANGED mixed

ResetStep(t) ==
    /\ \/ mpc[t] = "rcount" /\ ResetStore(t, "count", "rtotal")
       \/ mpc[t] = "rtotal" /\ ResetStore(t, "total", "rmin")
       \/ mpc[t] = "rmin" /\ ResetStore(t, "min", "rmax")
       \/ mpc[t] = "rmax" /\ ~all[t] /\ ResetStore(t, "max", "idle")
       \/ /\ mpc[t] = "rmax" /\ all[t] /\ trk' = [trk EXCEPT ![id[t]].max = 0]
          /\ IF id[t] < Len(names) THEN BeginReset(t, id[t] + 1) ELSE BeginHistReset(t)
    /\ ref' = IF mpc[t] = "rmax" THEN [ref EXCEPT ![id[t]] = Fresh] ELSE ref
    /\ UNCHANGED <<names, hist, reg_mutex, value, cur, all, calls, beyond>>

-----------------------------------------------------------------------------
(* The bucket of a value, 0 when it lies behind the last boundary. *)
BucketOf(x) ==
    LET B == {b \in DOMAIN Boundaries : x <= Boundaries[b]} IN
    IF B = {} THEN 0 ELSE Min(B)

(* metrics_histogram_observe: the bucket under the mutex ... *)
Observe(t) ==
    /\ Begin(t)
    /\ \E x \in Values :
        /\ value' = [value EXCEPT ![t] = x] /\ StepTo(t, "htotal")
        /\ buckets' = IF BucketOf(x) = 0 THEN buckets
                      ELSE [buckets EXCEPT ![BucketOf(x)] = @ + 1]
        /\ beyond' = IF BucketOf(x) = 0 THEN beyond + 1 ELSE beyond
    /\ mixed' = IF Inside(0, HRESETTING) = {} THEN mixed ELSE mixed \cup {0}
    /\ UNCHANGED <<names, trk, hcount, reg_mutex, id, cur, all, ref>>

(* Slip: one counter for the total and for the test of the last bucket. *)
ObserveTotalInBucket(t) ==
    /\ mpc[t] = "htotal" /\ StepTo(t, "idle")
    /\ hcount' = IF BucketOf(value[t]) = 0 THEN hcount ELSE hcount + 1
    /\ value' = Local(value, t)
    /\ UNCHANGED <<names, trk, buckets, reg_mutex, id, cur, all, calls, ghost>>

(* ... and the totals after it. *)
ObserveTotal(t) ==
    /\ mpc[t] = "htotal" /\ hcount' = hcount + 1 /\ StepTo(t, "idle")
    /\ value' = Local(value, t)
    /\ UNCHANGED <<names, trk, buckets, reg_mutex, id, cur, all, calls, ghost>>

(* metrics_histogram_reset: the buckets under the mutex, the totals after. *)
HistogramReset(t) ==
    /\ Begin(t) /\ BeginHistReset(t)
    /\ UNCHANGED <<names, trk, hist, reg_mutex, value, cur, all, ref, beyond>>

HistogramResetStep(t) ==
    /\ \/ /\ mpc[t] = "hrbuckets" /\ StepTo(t, "hrtotal")
          /\ buckets' = [b \in DOMAIN Boundaries |-> 0] /\ beyond' = 0
          /\ UNCHANGED <<hcount, reg_mutex, all>>
       \/ /\ mpc[t] = "hrtotal" /\ StepTo(t, "idle")
          /\ hcount' = 0 /\ all' = [all EXCEPT ![t] = FALSE]
          /\ reg_mutex' = (reg_mutex /\ ~all[t]) /\ UNCHANGED <<buckets, beyond>>
    /\ UNCHANGED <<names, trk, id, value, cur, calls, ref, mixed>>

-----------------------------------------------------------------------------
MetricsNext ==
    \E t \in Recorders :
        \/ PerfTimerStart(t) \/ PerfTimerEnd(t) \/ Record(t)
        \/ LatencyReset(t) \/ ResetAll(t) \/ ResetStep(t)
        \/ Observe(t) \/ ObserveTotal(t)
        \/ HistogramReset(t) \/ HistogramResetStep(t)

MetricsSpec == MetricsInit /\ [][MetricsNext]_metricsVars

-----------------------------------------------------------------------------
(* Whatever the interleaving of the atomic operations of recordings, a      *)
(* tracker nobody is inside of holds the number, the sum, the least and the *)
(* greatest of the values recorded since the last reset, unless a reset     *)
(* overlapped a recording; and an entry of the table has its name to        *)
(* itself unless the name was cut.  (metrics_latency_record)                *)
TrackerExact ==
    /\ \A i \in Trackers \ mixed :
         Inside(i, RECORDING \cup RESETTING) = {} => trk[i] = ref[i]
    /\ \A i, j \in DOMAIN names : names[i] = names[j] => i = j \/ names[i] = "cut"
    /\ \A t \in Recorders : mpc[t] = "timer" => id[t] \in DOMAIN names

(* What metrics_histogram_get sees under the mutex: never more observations *)
(* than bucket entries, and fewer only by the callers between the two       *)
(* updates, except for values behind the last boundary, which no bucket     *)
(* counts, and after a reset that overlapped an observation.                *)
(* (metrics_histogram_observe)                                              *)
HistogramSound ==
    Inside(0, HRESETTING) = {} /\ 0 \notin mixed =>
        hcount + Cardinality(Inside(0, OBSERVING))
          = MapThenSumSet(LAMBDA b : buckets[b], DOMAIN Boundaries) + beyond
============================================================================
