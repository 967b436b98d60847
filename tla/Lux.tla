--------------------------------- MODULE Lux --------------------------------
(***************************************************************************)
(* getLux and VoltToLux: the light level 0..9 of a sensor voltage.         *)
(* Voltages are counted in units of which Step lie between two thresholds  *)
(* of voltMap, where the code has 300 mV.                                  *)
(***************************************************************************)
EXTENDS Integers, FiniteSets

CONSTANT Step     (* the distance of two thresholds, 300 mV in the code    *)

ASSUME VoltageAssumption == Step \in Nat \ {0}

(* voltMap: 300, 600, ..., 3000 mV. *)
voltMap == [i \in 0..9 |-> (i + 1) * Step]

(* Mutant: the upper end of a band is read one place too far. *)
VoltToLuxWide(v) ==
  LET loop[i \in 0..9] ==
        IF i = 9 \/ (v > voltMap[i] /\ (i = 8 \/ v < voltMap[i + 2])) THEN i ELSE loop[i + 1]
  IN loop[0]

(* The first i with v strictly between voltMap[i] and voltMap[i + 1]; 9,    *)
(* the loop's final value, if there is none: below the first threshold and  *)
(* on every threshold as well as above the last.                            *)
VoltToLux(v) ==
  LET loop[i \in 0..9] ==
        IF i = 9 \/ (v > voltMap[i] /\ v < voltMap[i + 1]) THEN i ELSE loop[i + 1]
  IN loop[0]

(* The reference: the number of thresholds that a voltage exceeds. *)
Exceeded(v) == Cardinality({i \in 0..9 : v > voltMap[i]})
=============================================================================
