---------------------------- MODULE RateLimiter ----------------------------
(***************************************************************************)
(* The sliding-window limiter the broker has per UID (broker/middleware.go)*)
(* and the signer for all its callers (signer/ratelimit.go).  Both keep    *)
(* the times of the admitted requests and drop the old ones only when the  *)
(* next request arrives.                                                   *)
(*                                                                         *)
(* A log holds ages, the oldest request first: 0 is now.  An age of at     *)
(* least the window is one the limiter no longer counts, whatever it is,   *)
(* so ages stop there.                                                     *)
(***************************************************************************)
EXTENDS Integers, Sequences, FiniteSets

Logs(max, window) == UNION {[1..n -> 0..window] : n \in 0..(IF max > 0 THEN max ELSE 0)}

\* t.After(now - window) is strict.  What is older comes first in the log.
Pruned(log, window) ==
    SubSeq(log, 1 + Cardinality({i \in DOMAIN log : log[i] >= window}), Len(log))

\* Allow: no limit at all when none is configured.
Allows(log, max, window) == max <= 0 \/ Len(Pruned(log, window)) < max

\* Mutant: a fixed window, which starts afresh once its first request is old.
LoggedFixed(log, max, window) ==
    IF max <= 0 THEN log
    ELSE IF log # <<>> /\ log[1] >= window THEN <<0>>
    ELSE IF Len(log) < max THEN Append(log, 0)
    ELSE log

\* The log after Allow, which prunes whether it admits the request or not.
Logged(log, max, window) ==
    IF max <= 0 THEN log
    ELSE IF Allows(log, max, window) THEN Append(Pruned(log, window), 0)
    ELSE Pruned(log, window)

\* Mutant: the time the oldest request has been in the window.
RetryByAge(log, window, second) ==
    LET age == Pruned(log, window)[1] IN IF age < second THEN second ELSE age

\* When the oldest request leaves the window, a second from now at least.
RetryAfter(log, window, second) ==
    LET left == window - Pruned(log, window)[1] IN IF left < second THEN second ELSE left

\* One unit of time later.
AgedLog(log, window) == [i \in DOMAIN log |-> IF log[i] < window THEN log[i] + 1 ELSE window]

=============================================================================
