---------------------------- MODULE MCCollector ----------------------------
(* Small instances of Collector for TLC. *)
EXTENDS Collector

CONSTANTS k1, l1, a1

OneKeySeries == {k1}
OneRuleSeries == {l1}
OneClientSeries == {a1}
=============================================================================
