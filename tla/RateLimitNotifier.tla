------------------------- MODULE RateLimitNotifier -------------------------
(***************************************************************************)
(* NewSlackRateLimitNotifier of cody-gateway: calls from any number of     *)
(* gateway processes, for one actor and one feature, each of which reads   *)
(* the last threshold alerted for, sends a message and records its own     *)
(* threshold, under the lock of RedisLock.                                 *)
(***************************************************************************)
EXTENDS RedisLock

CONSTANTS Thresholds,   \* the percentages to notify at
          Usages        \* the percentages calls are made with

ASSUME ThresholdAssumption == /\ Thresholds \subseteq Nat \ {0}
                              /\ Usages \subseteq Nat

VARIABLES last,         \* the value of the alert key, 0 if there is none
          step, bucket, \* where a holder of the lock is, and its threshold
          notified,     \* history: thresholds a message was sent for since
                        \* the alert key expired
          forgotten     \* history: those of them whose call stopped, or
                        \* failed to set the key, after sending it

alertVars == <<last, step, bucket, notified, forgotten>>
notifierVars == <<lockVars, alertVars>>

TypeOK == /\ LockTypeOK
          /\ last \in Thresholds \cup {0}
          /\ step \in [Calls -> {"read", "send", "record", "release"}]
          /\ bucket \in [Calls -> Thresholds \cup {0}]
          /\ notified \subseteq Thresholds \cup {0}
          /\ forgotten \subseteq Thresholds \cup {0}

Init == /\ LockInit
        /\ last = 0
        /\ step = [c \in Calls |-> "read"]
        /\ bucket = [c \in Calls |-> 0]
        /\ notified = {} /\ forgotten = {}

(* The highest threshold the usage reaches.                                *)
IsBucket(b, usage) == /\ b \in Thresholds /\ b <= usage
                      /\ \A t \in Thresholds : t <= usage => t <= b

-----------------------------------------------------------------------------
(* A call with a usage below every threshold returns at once.              *)
Notify(c, usage) == /\ TryAcquire(c)
                    /\ step' = [step EXCEPT ![c] = "read"]
                    /\ \E b \in Thresholds :
                         /\ IsBucket(b, usage)
                         /\ bucket' = [bucket EXCEPT ![c] = b]
                    /\ UNCHANGED <<last, notified, forgotten>>

(* The threshold was alerted for already, or the GET fails; or it is a     *)
(* higher one.                                                             *)
ReadLast(c) == /\ pc[c] = "held" /\ step[c] = "read"
               /\ \/ step' = [step EXCEPT ![c] = "release"]
                  \/ /\ bucket[c] > last
                     /\ step' = [step EXCEPT ![c] = "send"]
               /\ UNCHANGED <<lockVars, last, bucket, notified, forgotten>>

(* The message is sent, or its request times out.                          *)
Send(c) == /\ pc[c] = "held" /\ step[c] = "send"
           /\ step' = [step EXCEPT ![c] = "record"]
           /\ notified' = notified \cup {bucket[c]}
           /\ UNCHANGED <<lockVars, last, bucket, forgotten>>

(* The deferred SETEX, which runs before the deferred release.             *)
Record(c) == /\ pc[c] = "held" /\ step[c] = "record"
             /\ step' = [step EXCEPT ![c] = "release"]
             /\ last' = bucket[c]
             /\ UNCHANGED <<lockVars, bucket, notified, forgotten>>

RecordFails(c) == /\ pc[c] = "held" /\ step[c] = "record"
                  /\ step' = [step EXCEPT ![c] = "release"]
                  /\ forgotten' = forgotten \cup {bucket[c]}
                  /\ UNCHANGED <<lockVars, last, bucket, notified>>

(* Mutant of Unlock: the defers run in the order in which they were made.  *)
UnlockEarly(c) == /\ pc[c] = "held" => step[c] \in {"record", "release"}
                  /\ Release(c) \/ Del(c)
                  /\ UNCHANGED alertVars

Unlock(c) == /\ pc[c] = "held" => step[c] = "release"
             /\ Release(c) \/ Del(c)
             /\ UNCHANGED alertVars

(* The process stops, or a command to Redis fails, at any point.           *)
Stop(c) == /\ Abandon(c)
           /\ forgotten' = IF pc[c] = "held" /\ step[c] = "record"
                             THEN forgotten \cup {bucket[c]} ELSE forgotten
           /\ UNCHANGED <<last, step, bucket, notified>>

(* The alert key reaches its TTL.                                          *)
Expire == /\ last' = 0
          /\ notified' = {bucket[c] : c \in {d \in Calls : pc[d] = "held"
                                                /\ step[d] = "record"}}
          /\ forgotten' = {}
          /\ UNCHANGED <<lockVars, step, bucket>>

Wait(c) == (SetNx(c) \/ Get(c) \/ Compare(c) \/ GetSet(c)) /\ UNCHANGED alertVars

Next == \/ Tick /\ UNCHANGED alertVars
        \/ Expire
        \/ \E c \in Calls, u \in Usages : Notify(c, u)
        \/ \E c \in Calls : \/ Wait(c) \/ ReadLast(c) \/ Send(c) \/ Record(c)
                            \/ RecordFails(c) \/ Unlock(c) \/ Stop(c)

Spec == Init /\ [][Next]_notifierVars

-----------------------------------------------------------------------------
(* At most one notification per threshold until the TTL is reached, as     *)
(* long as the calls that sent one recorded it.                            *)
NotifiedOnce == \A c \in Calls : (pc[c] = "held" /\ step[c] = "send")
                                    => bucket[c] \notin notified \ forgotten

=============================================================================
