--------------------------- MODULE MCWorkPipeline ---------------------------
(* Small instances of WorkPipeline.                                        *)
EXTENDS WorkPipeline, TLC

CONSTANTS c1, c2, k1, self, plain

KeyedWrite == [key |-> k1, intents |-> <<self>>]
PlainTwice == [key |-> None, intents |-> <<plain, plain>>]
PlainWrite == [key |-> None, intents |-> <<plain>>]

MCAsks == [c \in Writer |-> IF c = c1 THEN {KeyedWrite, PlainTwice}
                            ELSE {KeyedWrite, PlainWrite}]
MCAttempts == [i \in Intent |-> IF i = self THEN 1 ELSE 2]
MCJobIds == 1..2
=============================================================================
