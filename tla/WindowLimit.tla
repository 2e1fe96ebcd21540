---------------------------- MODULE WindowLimit ----------------------------
(***************************************************************************)
(* What a sliding-window limiter promises: every caller gets max requests  *)
(* in any stretch of window units, is refused only when it has had them,   *)
(* and is not charged for a refusal or for what others ask.  The requests  *)
(* that still count are known at every moment; nothing is left to the next *)
(* call.                                                                   *)
(***************************************************************************)
EXTENDS Integers, Sequences

CONSTANTS Callers, Limits, NoAnswer

VARIABLES recent,    \* caller -> ages of its requests of the last window, oldest first
          limit,     \* [max, window]; none when max is not positive
          answer     \* the last caller and what it was told

Fresh == recent = [u \in Callers |-> <<>>]

WInit == Fresh /\ limit \in Limits /\ answer = NoAnswer

Admit(u) ==
    /\ limit.max <= 0 \/ Len(recent[u]) < limit.max
    /\ recent' = IF limit.max <= 0 THEN recent ELSE [recent EXCEPT ![u] = Append(@, 0)]
    /\ answer' = <<u, "admitted">>
    /\ UNCHANGED limit

Refuse(u) ==
    /\ limit.max > 0 /\ Len(recent[u]) = limit.max
    /\ answer' = <<u, "refused">>
    /\ UNCHANGED <<recent, limit>>

\* A unit of time passes for a caller: exactly the requests that are one window old, which
\* come first, stop counting.
Aged(before, after) ==
    \E n \in 0..Len(before) :
        /\ \A i \in DOMAIN before : i <= n <=> before[i] + 1 >= limit.window
        /\ after = [i \in 1..(Len(before) - n) |-> before[n + i] + 1]

WTick ==
    /\ DOMAIN recent' = Callers
    /\ \A u \in Callers : Aged(recent[u], recent'[u])
    /\ UNCHANGED <<limit, answer>>

WRestart == recent' = [u \in Callers |-> <<>>] /\ limit' \in Limits /\ answer' = NoAnswer

WNext == WTick \/ WRestart \/ \E u \in Callers : Admit(u) \/ Refuse(u)

WSpec == WInit /\ [][WNext]_<<recent, limit, answer>>

=============================================================================
