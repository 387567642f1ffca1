----------------------------- MODULE MCDelivery -----------------------------
(* Small instances of Delivery for TLC. *)
EXTENDS DeliveryInvariant, TLC

CONSTANTS a, b,    \* devices
          p,       \* a command that publishes
          k1, k2,  \* MLS messages
          e1, e2   \* their copies

\* It runs on the device that sends first.
OnA == p :> a
Nobody == [w \in {} |-> a]

\* One sender: the second message builds on the first, or does not.
OneWayAuthor == k1 :> a @@ k2 :> a
OneWayRequires == k1 :> {} @@ k2 :> {k1}
ApartRequires == k1 :> {} @@ k2 :> {}
OneWayContent == e1 :> k1 @@ e2 :> k2
OneWayTo == e1 :> b @@ e2 :> b
=============================================================================
