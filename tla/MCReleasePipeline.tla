------------------------- MODULE MCReleasePipeline -------------------------
EXTENDS ReleasePipeline

CONSTANTS task, engineer, o1, o2, w1

MCEngineCount == [train |-> 2, test |-> 2]

Line(e, c, f) == [engine |-> e, cycle |-> c, fault |-> f]

Good ==
    [train |-> <<Line(1, 1, "none"), Line(1, 2, "none"), Line(2, 1, "none")>>,
     test  |-> <<Line(2, 1, "none"), Line(1, 1, "none"), Line(2, 2, "none")>>,
     rul   |-> <<5, 7>>]

WithoutLine(lines, i) ==
    SubSeq(lines, 1, i - 1) \o SubSeq(lines, i + 1, Len(lines))

(* One line changed, lost or repeated.                                     *)
Edited(lines) ==
    UNION {{[lines EXCEPT ![i].fault = f] : f \in Fault}
           \cup {[lines EXCEPT ![i].engine = e] : e \in {0, 3}}
           \cup {[lines EXCEPT ![i].cycle = c] : c \in {0, 1, 3}}
           \cup {WithoutLine(lines, i), Append(lines, lines[i])} : i \in DOMAIN lines}
    \cup {<<>>}

MCSources ==
    {[Good EXCEPT !.rul = rul] :
        rul \in {<<5, 7>>, <<>>, <<5>>, <<5, 7, 9>>, <<5, 0>>, <<0, 5, 7>>}}
    \cup UNION {{[Good EXCEPT ![s] = lines] : lines \in Edited(Good[s])} : s \in Splits}
=============================================================================
