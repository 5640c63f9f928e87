---------------------------- MODULE EventfdSync ----------------------------
(***************************************************************************)
(* eventfd_utils.c of new_ProcessPool: the mutex, the semaphore and the    *)
(* notifier that are built on an eventfd, and the queries that read an     *)
(* eventfd's counter and write it back.                                    *)
(*                                                                         *)
(* One descriptor of one kind, shared by threads or forked processes; its  *)
(* O_NONBLOCK flag belongs to the open file and is shared as well.  A      *)
(* system call is one step.  read and write take the flag when they start: *)
(* a caller that sleeps stays asleep when the flag changes.                *)
(***************************************************************************)
EXTENDS Integers, FiniteSets, Functions

CONSTANTS
    Threads,
    MaxValue,       \* the largest value an eventfd holds, 2^64 - 2
    Permits,        \* initial_count of the semaphore
    MaxAdded,       \* bound: events notified, permits added
    MaxProbes       \* bound: queries and validations

ASSUME EventfdAssumption ==
    /\ IsFiniteSet(Threads) /\ MaxValue \in Nat /\ Permits \in 1 .. MaxValue
    /\ MaxAdded \in Nat /\ MaxProbes \in Nat

VARIABLES
    kind,           \* "mutex" | "semaphore" | "notifier"
    counter, nonblock,  \* the eventfd
    eventCount,     \* notifier->event_count
    tpc, val,        \* thread -> where it is, and the value it read or writes
    was,            \* thread -> was_blocking of eventfd_validate
    held,           \* thread -> locks or permits it has
    received,       \* events that waiters were told of
    added,          \* events announced, permits added by posts
    lost,           \* units whose write the full counter refused
    probes

eventfdVars == <<kind, counter, nonblock, eventCount, tpc, val, was, held, received,
          added, lost, probes>>
books == <<eventCount, held, received, added, lost>>

(* create_eventfd, create_eventfd_blocking, create_eventfd_semaphore, and   *)
(* the init functions' first write.                                         *)
EventfdInit ==
    /\ \/ kind = "mutex" /\ counter = 1 /\ nonblock = FALSE
       \/ kind = "semaphore" /\ counter = Permits /\ nonblock = TRUE
       \/ kind = "notifier" /\ counter = 0 /\ nonblock = TRUE
    /\ tpc = [t \in Threads |-> "idle"] /\ val = [t \in Threads |-> 0]
    /\ was = [t \in Threads |-> FALSE] /\ held = [t \in Threads |-> 0]
    /\ eventCount = 0 /\ received = 0 /\ added = 0 /\ lost = 0 /\ probes = 0

-----------------------------------------------------------------------------
(* Slip: the semaphore's descriptor has no EFD_SEMAPHORE. *)
ReadAmountAll == counter

(* What a read of a counter that is not 0 returns. *)
ReadAmount == IF kind = "semaphore" THEN 1 ELSE counter

(* eventfd_read_value by t: it gets v and goes on at "got", or fails with   *)
(* -2 and goes on at "again", or sleeps at "asleep".                        *)
Read(t, asleep, got, again) ==
    \/ /\ counter > 0 /\ counter' = counter - ReadAmount
       /\ val' = [val EXCEPT ![t] = ReadAmount]
       /\ tpc' = [tpc EXCEPT ![t] = got]
    \/ /\ counter = 0 /\ tpc[t] # asleep
       /\ tpc' = [tpc EXCEPT ![t] = IF nonblock THEN again ELSE asleep]
       /\ UNCHANGED <<counter, val>>

(* eventfd_write_value by t of val[t], which then returns: what a           *)
(* non-blocking descriptor cannot take is refused (-2).                     *)
Write(t, next) ==
    /\ tpc' = [tpc EXCEPT ![t] = next] /\ val' = [val EXCEPT ![t] = 0]
    /\ \/ /\ counter + val[t] <= MaxValue /\ counter' = counter + val[t]
          /\ UNCHANGED lost
       \/ /\ counter + val[t] > MaxValue /\ nonblock
          /\ lost' = lost + val[t] /\ UNCHANGED counter

-----------------------------------------------------------------------------
(* eventfd_mutex_lock and eventfd_mutex_trylock (which sleep and fail       *)
(* alike), eventfd_semaphore_wait and trywait.                              *)
Acquire(t) ==
    /\ kind # "notifier" /\ tpc[t] \in {"idle", "locking"}
    /\ kind = "mutex" => held[t] = 0
    /\ Read(t, "locking", "acquired", "idle")
    /\ UNCHANGED <<kind, nonblock, was, books, probes>>

(* The call returns 0, and t has what it read. *)
Acquired(t) ==
    /\ tpc[t] = "acquired" /\ tpc' = [tpc EXCEPT ![t] = "idle"]
    /\ held' = [held EXCEPT ![t] = @ + 1] /\ val' = [val EXCEPT ![t] = 0]
    /\ UNCHANGED <<kind, counter, nonblock, eventCount, was, received, added,
                   lost, probes>>

(* eventfd_mutex_unlock, eventfd_semaphore_post by an owner. *)
Release(t) ==
    /\ tpc[t] = "idle" /\ held[t] > 0
    /\ held' = [held EXCEPT ![t] = @ - 1]
    /\ tpc' = [tpc EXCEPT ![t] = "write"] /\ val' = [val EXCEPT ![t] = 1]
    /\ UNCHANGED <<kind, counter, nonblock, eventCount, was, received, added,
                   lost, probes>>

(* eventfd_notifier_notify and notify_multiple count, then write;           *)
(* eventfd_semaphore_post and post_multiple by no owner add permits.        *)
Notify(t) ==
    /\ kind # "mutex" /\ tpc[t] = "idle"
    /\ \E n \in 1 .. MaxAdded - added :
        /\ added' = added + n /\ val' = [val EXCEPT ![t] = n]
        /\ eventCount' = IF kind = "notifier" THEN eventCount + n ELSE eventCount
    /\ tpc' = [tpc EXCEPT ![t] = "write"]
    /\ UNCHANGED <<kind, counter, nonblock, was, held, received, lost, probes>>

WriteStep(t) ==
    /\ tpc[t] = "write" /\ Write(t, "idle")
    /\ UNCHANGED <<kind, nonblock, was, eventCount, held, received, added, probes>>

(* eventfd_notifier_wait and try_wait, and eventfd_drain, which reads again *)
(* until the counter is 0.                                                  *)
NotifierWait(t) ==
    /\ kind = "notifier" /\ tpc[t] \in {"idle", "drain"}
    /\ \E l \in IF tpc[t] = "drain" THEN {"drained"} ELSE {"received", "drained"} :
        Read(t, "idle", l, "idle")
    /\ UNCHANGED <<kind, nonblock, was, books, probes>>

Received(t) ==
    /\ tpc[t] \in {"received", "drained"}
    /\ tpc' = [tpc EXCEPT ![t] = IF tpc[t] = "drained" THEN "drain" ELSE "idle"]
    /\ received' = received + val[t] /\ val' = [val EXCEPT ![t] = 0]
    /\ UNCHANGED <<kind, counter, nonblock, eventCount, was, held, added, lost,
                   probes>>

-----------------------------------------------------------------------------
(* eventfd_notifier_reset_counter *)
ResetCounter ==
    /\ eventCount # 0 /\ eventCount' = 0
    /\ UNCHANGED <<kind, counter, nonblock, tpc, val, was, held, received, added,
                   lost, probes>>

(* eventfd_is_signaled and eventfd_get_value: read, and write it back.  On  *)
(* a blocking descriptor the query sleeps until there is something to read. *)
Probe(t) ==
    /\ \/ tpc[t] = "idle" /\ probes < MaxProbes /\ probes' = probes + 1
       \/ tpc[t] = "probing" /\ UNCHANGED probes
    /\ Read(t, "probing", "write", "idle")
    /\ UNCHANGED <<kind, nonblock, was, books>>

(* eventfd_validate: was the descriptor blocking? *)
Validate(t) ==
    /\ tpc[t] = "idle" /\ probes < MaxProbes /\ probes' = probes + 1
    /\ was' = [was EXCEPT ![t] = ~nonblock]
    /\ tpc' = [tpc EXCEPT ![t] = IF nonblock THEN "vread" ELSE "vset"]
    /\ UNCHANGED <<kind, counter, nonblock, val, books>>

(* eventfd_set_nonblocking(efd, true) *)
ValidateSet(t) ==
    /\ tpc[t] = "vset" /\ nonblock' = TRUE
    /\ tpc' = [tpc EXCEPT ![t] = "vread"]
    /\ UNCHANGED <<kind, counter, val, was, books, probes>>

(* The read sleeps if another validation has restored the blocking mode. *)
ValidateRead(t) ==
    /\ tpc[t] \in {"vread", "vasleep"}
    /\ Read(t, "vasleep", "vwrite", "vrestore")
    /\ UNCHANGED <<kind, nonblock, was, books, probes>>

ValidateWrite(t) ==
    /\ tpc[t] = "vwrite" /\ Write(t, "vrestore")
    /\ UNCHANGED <<kind, nonblock, was, eventCount, held, received, added, probes>>

(* Slip: "while another validation runs, it will restore the mode". *)
ValidateRestoreLast(t) ==
    /\ tpc[t] = "vrestore" /\ tpc' = [tpc EXCEPT ![t] = "idle"]
    /\ nonblock' = (nonblock /\ ~(was[t] /\ \A u \in Threads \ {t} : tpc[u] = "idle"))
    /\ was' = [was EXCEPT ![t] = FALSE]
    /\ UNCHANGED <<kind, counter, val, books, probes>>

(* eventfd_set_nonblocking(efd, false), if it was blocking *)
ValidateRestore(t) ==
    /\ tpc[t] = "vrestore" /\ tpc' = [tpc EXCEPT ![t] = "idle"]
    /\ nonblock' = IF was[t] THEN FALSE ELSE nonblock
    /\ was' = [was EXCEPT ![t] = FALSE]
    /\ UNCHANGED <<kind, counter, val, books, probes>>

-----------------------------------------------------------------------------
Step(t) ==
    \/ Acquire(t) \/ Acquired(t) \/ Release(t) \/ Notify(t) \/ WriteStep(t)
    \/ NotifierWait(t) \/ Received(t) \/ Probe(t) \/ Validate(t)
    \/ ValidateSet(t) \/ ValidateRead(t) \/ ValidateWrite(t) \/ ValidateRestore(t)

EventfdNext == ResetCounter \/ \E t \in Threads : Step(t)
EventfdSpec == EventfdInit /\ [][EventfdNext]_eventfdVars

-----------------------------------------------------------------------------
EventfdTypeOK ==
    /\ kind \in {"mutex", "semaphore", "notifier"}
    /\ counter \in 0 .. MaxValue /\ nonblock \in BOOLEAN
    /\ eventCount \in Nat /\ received \in Nat /\ lost \in Nat
    /\ tpc \in [Threads -> {"idle", "locking", "acquired", "write", "received",
                           "drain", "drained", "probing", "vset", "vread",
                           "vasleep", "vwrite", "vrestore"}]
    /\ val \in [Threads -> Nat] /\ held \in [Threads -> Nat]
    /\ was \in [Threads -> BOOLEAN]

(* eventfd_mutex_lock: at most one thread owns the mutex, and the write of *)
(* eventfd_mutex_unlock is never refused.                                  *)
OneOwner ==
    kind = "mutex" =>
        /\ lost = 0
        /\ \A t, u \in Threads : held[t] > 0 /\ held[u] > 0 => t = u

Sum(f) == FoldFunction(+, 0, f)

(* Locks, permits and events are neither made nor lost, though every query  *)
(* takes them out of the descriptor and puts them back: what is in the      *)
(* counter, in the hands of a caller, in the middle of a query or received  *)
(* is what the init function and the callers put in, less what a full       *)
(* counter refused.  A mutex never refuses anything, so it has at most one  *)
(* owner.  (eventfd_is_signaled, eventfd_get_value, eventfd_validate)       *)
UnitsConserved ==
    /\ EventfdTypeOK
    /\ counter + Sum(val) + Sum(held) + received + lost
         = added + (CASE kind = "mutex" -> 1
                      [] kind = "semaphore" -> Permits
                      [] kind = "notifier" -> 0)
    /\ OneOwner /\ \A t \in Threads : kind = "mutex" => held[t] <= 1
    /\ eventCount <= added

(* The descriptor of a mutex is blocking except while a validation that     *)
(* made it non-blocking is under way, however validations overlap; only     *)
(* then may eventfd_mutex_lock return -2.  The others are never blocking.   *)
(* (eventfd_validate)                                                       *)
ModeRestored ==
    IF kind = "mutex"
    THEN nonblock => \E t \in Threads : was[t] /\ tpc[t] \in {"vread", "vasleep", "vwrite", "vrestore"}
    ELSE nonblock
============================================================================
