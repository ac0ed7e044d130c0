---------------------------- MODULE MCDemodulator ----------------------------
(* A demodulator with queues small enough to fill.                            *)
EXTENDS Demodulator

MCRates == {1, 2}
==============================================================================
