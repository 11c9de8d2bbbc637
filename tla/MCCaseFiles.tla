----------------------------- MODULE MCCaseFiles -----------------------------
(* Small instances of CaseFiles: a mirror and two captures of the awards page *)
(* that correct one row, remove one and add one.                              *)
EXTENDS CaseFiles

CONSTANTS w1, w2

MCSourceOf == [mirror |-> "solicitations", awards |-> "awards", later |-> "awards"]
Row(raw, text, date, org, refs) == [raw |-> raw, text |-> text, date |-> date, org |-> org, refs |-> refs]
MCRowsOf ==
    [mirror |-> <<Row("B-1", "seal", 5, <<>>, <<>>), Row("R-2", "fare", 5, <<>>, <<"R3", "B 1">>)>>,
     awards |-> <<Row("B 1", "100", 1, <<"one">>, <<>>), Row("B-4", "50", 2, <<>>, <<"R 2">>)>>,
     later |-> <<Row("B 1", "100", 1, <<>>, <<>>), Row("--", "7", 1, <<>>, <<>>)>>]
MCNorm == ("B-1" :> "B1" @@ "B 1" :> "B1" @@ "R-2" :> "R2" @@ "R3" :> "R3" @@ "R 2" :> "R2"
           @@ "B-4" :> "B4" @@ "--" :> "none")
MCNear == {<<"R3", "R2">>, <<"R2", "R3">>, <<"B1", "B4">>, <<"B4", "B1">>}
=============================================================================
