---------------------------- MODULE RateLimiter ----------------------------
(***************************************************************************)
(* RateLimiter (limiter.py) on the moving windows of the limits library:   *)
(* per tool of one agent and per limit, the ages of the calls it counts.   *)
(* A limit is a record of an amount and a window; another amount or window *)
(* is another limit, with calls of its own.  check() does not await, so it *)
(* is one step of whoever calls it.                                        *)
(***************************************************************************)
EXTENDS Naturals, Sequences

CONSTANTS Keys,    \* the tool names the limiter is asked about
          Limits   \* every limit some configuration sets

ASSUME LimiterAssumption == Limits \subseteq [amount : Nat, window : Nat]

VARIABLE hits      \* MemoryStorage: the calls counted, oldest first, by their age

LimiterTypeOK == hits \in [Keys \X Limits -> Seq(Nat)]

LimiterInit == hits = [k \in Keys \X Limits |-> <<>>]

\* test(): fewer calls than the amount are within the window.
Within(key, limits) == \A l \in limits : Len(hits[<<key, l>>]) < l.amount

\* hit() of every limit in a set.
Hit(key, limits) ==
    hits' = [k \in Keys \X Limits |-> IF k[1] = key /\ k[2] \in limits
                                      THEN Append(hits[k], 0) ELSE hits[k]]

\* check() is true: all limits are tested before any is hit.
Allow(key, limits) == Within(key, limits) /\ Hit(key, limits)

\* (mutant) each limit is hit as soon as it has been tested.
DisallowBurning(key, limits) ==
    /\ ~Within(key, limits)
    /\ Hit(key, {l \in limits : Within(key, {l})})

\* check() is false: nothing is used up.
Disallow(key, limits) == ~Within(key, limits) /\ UNCHANGED hits

\* The number of calls, the oldest ones, that are out of a window a tick later.
Gone(ages, window) ==
    CHOOSE n \in 0..Len(ages) : \A i \in DOMAIN ages : ages[i] >= window <=> i <= n

\* A tick later, what has left its window no longer counts.
Aged(ages, window) ==
    LET gone == Gone(ages, window)
    IN  [i \in 1..(Len(ages) - gone) |-> ages[i + gone] + 1]

LimiterTick == hits' = [k \in Keys \X Limits |-> Aged(hits[k], k[2].window)]
=============================================================================
