------------------------- MODULE MCPostgresStorage -------------------------
(***************************************************************************)
(* PostgresStorage with two batches and a single update.                   *)
(***************************************************************************)
EXTENDS PostgresStorage

Gauge(i, v) == [id |-> i, type |-> "gauge", v |-> v]
Counter(i, v) == [id |-> i, type |-> "counter", v |-> v]

ThreeOps == {"ab", "ba", "b"}

\* The two batches lock their rows in opposite orders; "ab" updates a twice.
OneTypeEach ==
    [o \in ThreeOps |->
        CASE o = "ab" -> <<Gauge("a", 1), Counter("b", 1), Gauge("a", 2)>>
          [] o = "ba" -> <<Counter("b", 2), Gauge("a", 3)>>
          [] o = "b"  -> <<Counter("b", 4)>>]

ASSUME NamesKeep == NamesKeepTheirType

=============================================================================
