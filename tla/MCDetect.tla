------------------------------ MODULE MCDetect ------------------------------
(* Small instances of Detect: two rules and eight lines.                 *)
EXTENDS Detect

L(id, says, denies, names, refuses) ==
    [id |-> id, says |-> says, denies |-> denies, names |-> names, refuses |-> refuses]

MCTerms == [axon |-> <<"Axon body", "Axon">>, alpr |-> <<"ALPR">>]
MCFalsePositives == [axon |-> {"axon of a neuron"}, alpr |-> {}]
MCCategory == [axon |-> "vendor", alpr |-> "technology"]

MCLines == {
    L(1, {}, {}, {}, {}),
    L(2, {"Axon", "axon of a neuron"}, {}, {}, {}),
    L(3, {"Axon", "Axon body", "camera", "$10"}, {}, {}, {}),
    L(4, {"Axon", "approved", "ordinance"}, {"approved"}, {}, {}),
    L(5, {"Action:", "approved", "ordinance", "$20"}, {}, {<<"awarded to", "alpr">>}, {}),
    L(6, {"rejected"}, {}, {}, {}),
    L(7, {"ALPR", "retention", "amendment"}, {}, {}, {}),
    L(8, {"Axon", "ALPR"}, {}, {<<"contract with", "axon">>}, {<<"contract with", "axon">>})}
=============================================================================
