----------------------------- MODULE RedisLock -----------------------------
(***************************************************************************)
(* internal/redislock: a lock that is a key in Redis, with the time at     *)
(* which it expires in its value.  Every command to Redis is a step, and   *)
(* so is the comparison with the clock between two of them.                *)
(*                                                                         *)
(* A token is unique (it holds a UUID) and stands for the call of          *)
(* TryAcquire that made it: a call's name is used again only when no trace *)
(* of its last token is left.                                              *)
(***************************************************************************)
EXTENDS Integers

CONSTANTS Calls,          \* bound: calls and tokens in existence at one time
          NoCall,
          LockTimeout,    \* the argument lockTimeout, in ticks
          AcquireTime,    \* the longest TryAcquire takes: Redis commands
          OperationTime   \* the longest a call takes, from start to release

(* "The duration of the entire operation should be well-below the lock     *)
(* timeout."  How far below is for the theorem to say.                     *)
ASSUME LockAssumption == /\ NoCall \notin Calls
                         /\ LockTimeout \in Nat /\ OperationTime \in Nat
                         /\ AcquireTime \in 0 .. OperationTime
                         /\ OperationTime < LockTimeout

VARIABLES token,    \* the call whose token is the key's value, or NoCall
          left,     \* the time until each call's token expires
          pc,       \* where each call is
          seen      \* currentLockToken of a call

lockVars == <<token, left, pc, seen>>

LockTypeOK == /\ token \in Calls \cup {NoCall}
              /\ left \in [Calls -> 0 .. LockTimeout]
              /\ pc \in [Calls -> {"none", "setnx", "get", "compare", "getset",
                                   "held", "del"}]
              /\ seen \in [Calls -> Calls \cup {NoCall}]

LockInit == /\ token = NoCall
            /\ left = [c \in Calls |-> 0]
            /\ pc = [c \in Calls |-> "none"]
            /\ seen = [c \in Calls |-> NoCall]

Go(c, at) == pc' = [pc EXCEPT ![c] = at]

(* The call returns, or stops for another reason, and drops what it saw.   *)
End(c) == /\ Go(c, "none")
          /\ seen' = [seen EXCEPT ![c] = NoCall]

-----------------------------------------------------------------------------
(* TryAcquire computes its timeout and token.                              *)
TryAcquire(c) == /\ pc[c] = "none"
                 /\ token # c /\ \A d \in Calls : seen[d] # c
                 /\ Go(c, "setnx")
                 /\ left' = [left EXCEPT ![c] = LockTimeout]
                 /\ UNCHANGED <<token, seen>>

SetNx(c) == /\ pc[c] = "setnx"
            /\ IF token = NoCall THEN token' = c /\ Go(c, "held")
                                 ELSE UNCHANGED token /\ Go(c, "get")
            /\ UNCHANGED <<left, seen>>

(* Someone else got the lock: it is released already, or read.             *)
Get(c) == /\ pc[c] = "get"
          /\ IF token = NoCall THEN End(c)
                               ELSE /\ seen' = [seen EXCEPT ![c] = token]
                                    /\ Go(c, "compare")
          /\ UNCHANGED <<token, left>>

Expired(c) == left[c] = 0

Compare(c) == /\ pc[c] = "compare"
              /\ IF Expired(seen[c]) THEN Go(c, "getset") /\ UNCHANGED seen
                                     ELSE End(c)
              /\ UNCHANGED <<token, left>>

(* Mutant of GetSet: the value it returns is not compared with the one     *)
(* read before.                                                            *)
GetSetAlways(c) == /\ pc[c] = "getset"
                   /\ token' = c
                   /\ Go(c, "held")
                   /\ seen' = [seen EXCEPT ![c] = NoCall]
                   /\ UNCHANGED left

(* The key's value is replaced whoever gets the lock, and even if there is *)
(* none, which is an error.                                                *)
GetSet(c) == /\ pc[c] = "getset"
             /\ token' = c
             /\ IF token = seen[c]
                  THEN Go(c, "held") /\ seen' = [seen EXCEPT ![c] = NoCall]
                  ELSE End(c)
             /\ UNCHANGED left

(* release: GET, and DEL if the token is the call's own.                   *)
Release(c) == /\ pc[c] = "held"
              /\ Go(c, IF token = c THEN "del" ELSE "none")
              /\ UNCHANGED <<token, left, seen>>

Del(c) == /\ pc[c] = "del"
          /\ token' = NoCall
          /\ Go(c, "none")
          /\ UNCHANGED <<left, seen>>

(* The process stops, or a command to Redis fails.                         *)
Abandon(c) == /\ pc[c] # "none"
              /\ End(c)
              /\ UNCHANGED <<token, left>>

(* How long after its start a call may still be where it is: the holder of *)
(* the lock does its work, which a contender does not.                     *)
TimeAllowed(c) == IF pc[c] \in {"held", "del"} THEN OperationTime
                                              ELSE AcquireTime

(* Time passes, but a call in progress does not outlive its time.          *)
Tick == /\ \A c \in Calls : pc[c] # "none"
                              => left[c] > LockTimeout - TimeAllowed(c)
        /\ left' = [c \in Calls |-> IF left[c] > 0 THEN left[c] - 1 ELSE 0]
        /\ UNCHANGED <<token, pc, seen>>

Acquiring(c) == \/ TryAcquire(c) \/ SetNx(c) \/ Get(c) \/ Compare(c)
                \/ GetSet(c)

LockNext == \/ Tick
            \/ \E c \in Calls : \/ Acquiring(c) \/ Release(c) \/ Del(c)
                                \/ Abandon(c)

LockSpec == LockInit /\ [][LockNext]_lockVars

-----------------------------------------------------------------------------
(* The lock has one holder at a time, although contenders that come too    *)
(* late replace the holder's token, so that its release does not find it,  *)
(* and calls stop half way.  It takes AcquireTime + OperationTime <        *)
(* LockTimeout: the token a late contender leaves behind was made up to    *)
(* AcquireTime before, and must not expire under a holder that has just    *)
(* begun.  With equality there are two holders, so that an operation       *)
(* "lower than the lock timeout" (rate_limit.go) is not enough by itself.  *)
Holders == {c \in Calls : pc[c] \in {"held", "del"}}

MutualExclusion == \A c, d \in Holders : c = d

=============================================================================
