----------------------------- MODULE MCCandles -----------------------------
(* Two resolutions for TLC: buckets of one second, and of two.             *)
EXTENDS Candles

MCResolutions == <<"1m", "15m">>

MCSeconds == [r \in {"1m", "15m"} |-> IF r = "1m" THEN 1 ELSE 2]
=============================================================================
