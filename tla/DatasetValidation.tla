------------------------- MODULE DatasetValidation -------------------------
(***************************************************************************)
(* The publication gates of data/validate.py, as operators on the contents *)
(* of the three source files: parse_telemetry_file, parse_test_rul_file    *)
(* and validate_fd001.                                                     *)
(*                                                                         *)
(* A telemetry line is [engine, cycle, fault]; an identifier that is not   *)
(* an integer is one that is not positive.  A RUL line is an integer; one  *)
(* of several columns, or no integer, is one that is not positive.  Blank  *)
(* lines are skipped by the code and left out here.                        *)
(***************************************************************************)
EXTENDS Integers, Sequences, FiniteSets

CONSTANT EngineCount  \* FD001_EXPECTED_ENGINE_COUNTS, per split

ASSUME EngineCountAssumption == EngineCount \in [{"train", "test"} -> Nat]

Splits == {"train", "test"}

(* columns: wrong number of columns.  value: a setting is missing, or a    *)
(* value is not a finite number.  sensor: a sensor value is missing.       *)
Fault == {"none", "columns", "value", "sensor"}

TelemetryLine == [engine : Int, cycle : Int, fault : Fault]

Source == [train : Seq(TelemetryLine), test : Seq(TelemetryLine), rul : Seq(Int)]

Rejected(line) ==
    line.fault \in {"columns", "value"} \/ line.engine <= 0 \/ line.cycle <= 0

(* The rows of the frame, each by the number of the line it comes from.    *)
Rows(lines) == {i \in DOMAIN lines : ~Rejected(lines[i])}

Errors(lines) == \E i \in DOMAIN lines : Rejected(lines[i])

Warnings(lines) == \E i \in DOMAIN lines : lines[i].fault = "sensor"

EnginesOf(lines) == {lines[i].engine : i \in Rows(lines)}

RowsOfEngine(lines, e) == {i \in Rows(lines) : lines[i].engine = e}

CyclesOf(lines, e) == {lines[i].cycle : i \in RowsOfEngine(lines, e)}

(* max(cycles).                                                            *)
FinalCycle(lines, e) ==
    CHOOSE c \in CyclesOf(lines, e) : \A d \in CyclesOf(lines, e) : d <= c

(* sorted(cycles) = 1 .. max(cycles): no gap, no repetition.               *)
Contiguous(lines, e) ==
    /\ CyclesOf(lines, e) = 1..FinalCycle(lines, e)
    /\ Cardinality(RowsOfEngine(lines, e)) = FinalCycle(lines, e)

(* _validate_telemetry_structure: it has no error.                         *)
WellStructured(lines, split) ==
    /\ Rows(lines) # {}
    /\ \A i, j \in Rows(lines) :
          lines[i].engine = lines[j].engine /\ lines[i].cycle = lines[j].cycle => i = j
    /\ EnginesOf(lines) = 1..EngineCount[split]
    /\ \A e \in EnginesOf(lines) : Contiguous(lines, e)

(* The values that are kept, each by the number of its line.               *)
RulValues(rul) == {i \in DOMAIN rul : rul[i] > 0}

(* Mutant of LabelCountMatches: spare labels at the end do no harm.        *)
EnoughLabels(rul, test) ==
    Cardinality(RulValues(rul)) >= Cardinality(EnginesOf(test))

LabelCountMatches(rul, test) ==
    Cardinality(RulValues(rul)) = Cardinality(EnginesOf(test))

(* The number at place n of a set of numbers in ascending order.           *)
Nth(S, n) == CHOOSE i \in S : Cardinality({j \in S : j <= i}) = n

(* The labels are given to the engines by position, in order of engine_id. *)
Labels(rul, test) ==
    IF ~LabelCountMatches(rul, test) THEN <<>>
    ELSE [n \in 1..Cardinality(EnginesOf(test)) |->
             LET e == Nth(EnginesOf(test), n)
             IN  [engine |-> e, final_cycle |-> FinalCycle(test, e),
                  additional |-> rul[Nth(RulValues(rul), n)]]]

RulErrors(rul, test) ==
    \/ \E i \in DOMAIN rul : rul[i] <= 0
    \/ ~LabelCountMatches(rul, test)

(* validate_fd001.                                                         *)
ValidationStatus(source) ==
    LET failed == \/ \E s \in Splits : Errors(source[s])
                  \/ RulErrors(source.rul, source["test"])
                  \/ \E s \in Splits : ~WellStructured(source[s], s)
    IN IF failed THEN "FAILED"
       ELSE IF \E s \in Splits : Warnings(source[s]) THEN "PASSED_WITH_WARNINGS"
       ELSE "PASSED"

=============================================================================
