------------------------------- MODULE Expiry -------------------------------
(* How the relay rounds the times it stores: relay/internal/store           *)
(* delivery.go (coarseExpiry) and blobs.go (coarseHour).                    *)
EXTENDS Integers

CONSTANTS Day, Hour, Minute  \* the units it rounds to

ASSUME ExpiryAssumption ==
    Day \in Nat \ {0} /\ Hour \in Nat \ {0} /\ Minute \in Nat \ {0}

\* Round an expiry down to a unit that is at most half of the life left.
coarseExpiry(expiry, t) ==
    LET life == expiry - t
    IN  IF life >= 2 * Day THEN expiry - (expiry % Day)
        ELSE IF life >= 2 * Hour THEN expiry - (expiry % Hour)
        ELSE IF life >= 2 * Minute THEN expiry - (expiry % Minute)
        ELSE expiry

\* The start of the hour.
coarseHour(t) == t - (t % Hour)

\* What is rounded: the request, or the longest life `ttl` when the request
\* names nothing or more than that.  A request that names a time already past
\* is kept as it is.
clipped(requested, ttl, t) ==
    IF requested <= 0 \/ requested > t + ttl THEN t + ttl ELSE requested
=============================================================================
