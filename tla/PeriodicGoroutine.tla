------------------------- MODULE PeriodicGoroutine -------------------------
(***************************************************************************)
(* internal/goroutine/periodic.go: a handler called again and again by a   *)
(* pool of goroutines, whose size follows a setting.                       *)
(*                                                                         *)
(* Three kinds of goroutine: Start, which resizes the pool; the one of     *)
(* concurrencyUpdates, which polls the setting and passes changes on       *)
(* through a channel with room for one value; and the workers of the pool. *)
(***************************************************************************)
EXTENDS Integers, FiniteSets

CONSTANTS Workers,           \* bound: goroutines of pools at one time
          Concurrencies,     \* values of getConcurrency
          NoValue,
          MaxReinvocations   \* maxConsecutiveReinvocations

ASSUME PeriodicAssumption == /\ IsFiniteSet(Workers)
                             /\ Concurrencies \subseteq Nat
                             /\ Concurrencies # {}
                             /\ NoValue \notin Concurrencies
                             /\ MaxReinvocations \in Nat \ {0}

VARIABLES wanted,          \* what getConcurrency returns
          stopped,         \* r.ctx is done
          main, next,      \* where Start is; the size it received
          size,            \* the size of the pool it started last
          updater, prev,   \* where concurrencyUpdates is, its prevValue
          buffer, closed,  \* the channel between the two
          worker,          \* where each worker is
          canceled,        \* workers whose pool is being drained
          reinvocations    \* r.reinvocations, shared by the workers

settingVars == <<wanted, stopped>>
mainVars    == <<main, next, size>>
updateVars  == <<updater, prev, closed>>
poolVars    == <<worker, canceled, reinvocations>>
vars == <<settingVars, mainVars, updateVars, buffer, poolVars>>

TypeOK ==
    /\ wanted \in Concurrencies /\ stopped \in BOOLEAN
    /\ main \in {"new", "receive", "drain", "last", "finalize", "finished"}
    /\ next \in Concurrencies \cup {NoValue} /\ size \in Concurrencies \cup {0}
    /\ updater \in {"off", "poll", "write"} /\ closed \in BOOLEAN
    /\ prev \in Concurrencies /\ buffer \in Concurrencies \cup {NoValue}
    /\ worker \in [Workers -> {"off", "handle", "again", "sleep"}]
    /\ canceled \subseteq Workers
    /\ reinvocations \in 0 .. MaxReinvocations - 1

Init == /\ wanted \in Concurrencies /\ stopped = FALSE
        /\ main = "new" /\ next = NoValue /\ size = 0
        /\ updater = "off" /\ prev = wanted /\ closed = FALSE
        /\ buffer = NoValue
        /\ worker = [w \in Workers |-> "off"]
        /\ canceled = {}
        /\ reinvocations = 0

Pool == {w \in Workers : worker[w] # "off"}

-----------------------------------------------------------------------------
(* The setting changes; Stop is called, or the parent context canceled,    *)
(* perhaps before Start.                                                   *)
Configure(n) == /\ wanted' = n
                /\ UNCHANGED <<stopped, mainVars, updateVars, buffer, poolVars>>

Stop == /\ stopped' = TRUE
        /\ UNCHANGED <<wanted, mainVars, updateVars, buffer, poolVars>>

(* Start: concurrencyUpdates fills the channel before it returns.          *)
Start == /\ main = "new"
         /\ main' = "receive"
         /\ updater' = "poll"
         /\ prev' = wanted /\ buffer' = wanted
         /\ UNCHANGED <<settingVars, next, size, closed, poolVars>>

(* The range of runHandlerPool: a size is received and the pool canceled.  *)
Receive == /\ main = "receive"
           /\ buffer # NoValue
           /\ next' = buffer /\ buffer' = NoValue
           /\ main' = "drain"
           /\ canceled' = Pool
           /\ UNCHANGED <<settingVars, size, updateVars, worker, reinvocations>>

(* Mutant of StartPool: the old pool is canceled and not waited for.       *)
StartPoolAtOnce ==
    /\ main = "drain"
    /\ \E new \in SUBSET (Workers \ Pool) :
         /\ Cardinality(new) = next
         /\ worker' = [w \in Workers |-> IF w \in new THEN "handle"
                                                      ELSE worker[w]]
    /\ size' = next /\ next' = NoValue
    /\ main' = "receive"
    /\ UNCHANGED <<settingVars, updateVars, buffer, canceled, reinvocations>>

(* The old pool has ended: another starts.  Its workers call the handler   *)
(* at once, even if the context is done.                                   *)
StartPool == /\ main = "drain"
             /\ Pool = {}
             /\ \E new \in SUBSET Workers :
                  /\ Cardinality(new) = next
                  /\ worker' = [w \in Workers |-> IF w \in new THEN "handle"
                                                               ELSE "off"]
             /\ size' = next /\ next' = NoValue
             /\ main' = "receive"
             /\ canceled' = {}
             /\ UNCHANGED <<settingVars, updateVars, buffer, reinvocations>>

(* The channel is closed and empty: the pool is drained for the last time. *)
LastDrain == /\ main = "receive"
             /\ closed /\ buffer = NoValue
             /\ main' = "last"
             /\ canceled' = Pool
             /\ UNCHANGED <<settingVars, next, size, updateVars, buffer, worker,
                            reinvocations>>

(* Mutant of Drained: the workers are canceled and not waited for.         *)
NotDrained == /\ main = "last"
              /\ main' = "finalize"
              /\ UNCHANGED <<settingVars, next, size, updateVars, buffer,
                             poolVars>>

Drained == /\ main = "last"
           /\ Pool = {}
           /\ main' = "finalize"
           /\ UNCHANGED <<settingVars, next, size, updateVars, buffer, poolVars>>

(* OnShutdown returns, and finished is closed: Stop returns.               *)
OnShutdown == /\ main = "finalize"
              /\ main' = "finished"
              /\ UNCHANGED <<settingVars, next, size, updateVars, buffer,
                             poolVars>>

-----------------------------------------------------------------------------
(* concurrencyUpdates: the clock ticks and the setting has changed.        *)
Recheck == /\ updater = "poll"
           /\ wanted # prev
           /\ prev' = wanted
           /\ updater' = "write"
           /\ UNCHANGED <<settingVars, mainVars, closed, buffer, poolVars>>

(* forciblyWriteToBufferedChannel: a send, if there is room ...            *)
Write == /\ updater = "write"
         /\ buffer = NoValue
         /\ buffer' = prev
         /\ updater' = "poll"
         /\ UNCHANGED <<settingVars, mainVars, prev, closed, poolVars>>

(* Mutant of Pop: a full channel is left as it is.                         *)
GiveUp == /\ updater = "write"
          /\ buffer # NoValue
          /\ updater' = "poll"
          /\ UNCHANGED <<settingVars, mainVars, prev, closed, buffer, poolVars>>

(* ... and otherwise what is there is taken out, and the send tried again. *)
Pop == /\ updater = "write"
       /\ buffer # NoValue
       /\ buffer' = NoValue
       /\ UNCHANGED <<settingVars, mainVars, updateVars, poolVars>>

(* Mutant of Close: the goroutine ends and the channel stays open.         *)
LeaveOpen == /\ updater = "poll"
             /\ stopped
             /\ updater' = "off"
             /\ UNCHANGED <<settingVars, mainVars, prev, closed, buffer,
                            poolVars>>

(* The context is done: the channel is closed.                             *)
Close == /\ updater = "poll"
         /\ stopped
         /\ updater' = "off"
         /\ closed' = TRUE
         /\ UNCHANGED <<settingVars, mainVars, prev, buffer, poolVars>>

-----------------------------------------------------------------------------
Canceled(w) == stopped \/ w \in canceled

(* Mutant of NextInterval: requests for another call are not counted.      *)
NextIntervalUncounted(w, reinvoke) ==
    IF reinvoke THEN /\ worker' = [worker EXCEPT ![w] = "again"]
                     /\ UNCHANGED reinvocations
                ELSE /\ worker' = [worker EXCEPT ![w] = "sleep"]
                     /\ reinvocations' = 0

(* Mutant of NextInterval: one call too many without an interval.          *)
NextIntervalPast(w, reinvoke) ==
    IF reinvoke /\ reinvocations < MaxReinvocations
      THEN /\ worker' = [worker EXCEPT ![w] = "again"]
           /\ reinvocations' = reinvocations + 1
      ELSE /\ worker' = [worker EXCEPT ![w] = "sleep"]
           /\ reinvocations' = 0

(* getNextInterval: no interval, or the configured one.                    *)
NextInterval(w, reinvoke) ==
    IF reinvoke /\ reinvocations + 1 < MaxReinvocations
      THEN /\ worker' = [worker EXCEPT ![w] = "again"]
           /\ reinvocations' = reinvocations + 1
      ELSE /\ worker' = [worker EXCEPT ![w] = "sleep"]
           /\ reinvocations' = 0

(* The handler returns, with an error or without, or asks to be called     *)
(* again.                                                                  *)
Return(w, reinvoke) == /\ worker[w] = "handle"
                       /\ NextInterval(w, reinvoke)
                       /\ UNCHANGED <<settingVars, mainVars, updateVars, buffer,
                                      canceled>>

(* It returns the error of its context: the worker ends.                   *)
ReturnCanceled(w) == /\ worker[w] = "handle"
                     /\ Canceled(w)
                     /\ worker' = [worker EXCEPT ![w] = "off"]
                     /\ UNCHANGED <<settingVars, mainVars, updateVars, buffer,
                                    canceled, reinvocations>>

(* The select of runHandlerPeriodically: the interval is over ...          *)
Wake(w) == /\ worker[w] \in {"again", "sleep"}
           /\ worker' = [worker EXCEPT ![w] = "handle"]
           /\ UNCHANGED <<settingVars, mainVars, updateVars, buffer, canceled,
                          reinvocations>>

(* ... or a context is done.                                               *)
Exit(w) == /\ worker[w] \in {"again", "sleep"}
           /\ Canceled(w)
           /\ worker' = [worker EXCEPT ![w] = "off"]
           /\ UNCHANGED <<settingVars, mainVars, updateVars, buffer, canceled,
                          reinvocations>>

RunHandlerPool == \/ Start \/ Receive \/ StartPool \/ LastDrain \/ Drained
                  \/ OnShutdown

ConcurrencyUpdates == Recheck \/ Write \/ Pop \/ Close

RunHandlerPeriodically(w) == \/ \E reinvoke \in BOOLEAN : Return(w, reinvoke)
                             \/ ReturnCanceled(w) \/ Wake(w) \/ Exit(w)

Next == \/ \E n \in Concurrencies : Configure(n)
        \/ Stop
        \/ RunHandlerPool \/ ConcurrencyUpdates
        \/ \E w \in Workers : RunHandlerPeriodically(w)

Spec == Init /\ [][Next]_vars

(* Goroutines run and handlers return; a select in which a context is done *)
(* every time does not take the timer every time.                          *)
Fairness == /\ WF_vars(RunHandlerPool)
            /\ WF_vars(ConcurrencyUpdates) /\ SF_vars(Close)
            /\ \A w \in Workers : /\ WF_vars(RunHandlerPeriodically(w))
                                  /\ SF_vars(Exit(w))

FairSpec == Spec /\ Fairness

-----------------------------------------------------------------------------
(* A pool is resized only when the last one has ended: the handler is not  *)
(* called by more goroutines at once than the size that is in force.       *)
PoolWithinSize == Cardinality(Pool) <= size

(* OnShutdown is called after the last call of the handler.                *)
FinalizedLast == main \in {"finalize", "finished"} => Pool = {}

(* Stop returns, whatever the handlers return, however often they ask to   *)
(* be called again and whenever the setting changes.                       *)
StopReturns == stopped ~> (main = "finished")

(* The last value of the setting is the size of the pool in the end,       *)
(* although values that nobody received are thrown away.                   *)
SettingReached ==
    \A n \in Concurrencies :
        (<>[](wanted = n /\ ~stopped)) => <>[](size = n /\ main = "receive")

(* A handler that asks to be called again every time does not keep the     *)
(* pool from sleeping: the calls without an interval are counted.          *)
NoSpin == []<>(\/ stopped \/ size = 0 \/ main = "drain"
               \/ \E w \in Workers : worker[w] = "sleep")

=============================================================================
