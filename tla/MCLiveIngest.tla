---------------------------- MODULE MCLiveIngest ----------------------------
(* Small instances of LiveIngest: two settings that differ in the interval,  *)
(* one reviewed host, and events that share a matter.  The end of a review   *)
(* is typed as the clock writes it, or its text sorts later than the time it *)
(* names.                                                                    *)
EXTENDS LiveIngest, TLC

CONSTANTS api, other, e1, e2, e3, e4

MCSettings == {[host |-> api, interval |-> 2], [host |-> api, interval |-> 1]}
MCFeeds == {<<e2, e1, e3>>}
MCItems ==
    e1 :> <<[matter |-> "m1", files |-> <<"f1", "f2">>]>> @@
    e2 :> <<[matter |-> "", files |-> <<"f3">>], [matter |-> "m1", files |-> <<"f3">>]>> @@
    e3 :> <<[matter |-> "m2", files |-> <<"f4">>]>> @@
    e4 :> <<>>
Interchangeable == Permutations(Command)
MCExpiries == {[text |-> 1, instant |-> 1], [text |-> MaxTime, instant |-> 0]}
MCLimits == {[size |-> 2, pages |-> 2], [size |-> 1, pages |-> 2]}
=============================================================================
