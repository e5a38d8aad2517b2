-------------------------- MODULE MCTokenLifetimes --------------------------
(* Durations of each format, around the second at which the claims round:    *)
(* "1s", "2s", "1m", the bare "1", "1500" and "2000", and "1w".              *)
EXTENDS TokenLifetimes

MCDurations ==
  [value : {1, 2}, unit : {"s"}] \cup [value : {1}, unit : {"m", "w", "none"}]
    \cup [value : {1500, 2000}, unit : {"none"}]

=============================================================================
