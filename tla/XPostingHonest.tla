--------------------------- MODULE XPostingHonest ---------------------------
(***************************************************************************)
(* The posting protocol with an operator who follows the documentation: a  *)
(* reconciliation is started only while no post command runs, and what it  *)
(* says of its attempt is true of X at that moment.  A statement of the    *)
(* documentation is then put to the test; it fails, because a post command *)
(* that lost the race for the reservation leaves an attempt of its own,    *)
(* and reconciling THAT attempt acts on the rows of the other one.         *)
(***************************************************************************)
EXTENDS XPosting

\* What each decision asserts of attempt a (docs/state-bots.md, the list of
\* reconciliation decisions).
Truthful(a, d, id) ==
    /\ \A s \in Segment : <<a, s>> \notin inflight
    /\ d = "confirm_none_posted" => OnX(a) = {}
    /\ d = "partial" => OnX(a) # {} /\ OnX(a) # Segment
    /\ d = "confirm_posted" =>
          /\ OnX(a) # {}
          /\ id # NoId => /\ Missing(attempts[a]) # {}
                          /\ id = <<a, FirstMissing(attempts[a])>>

HonestStep ==
    \A r \in Operator : At(r, "idle") /\ proc'[r].pc = "recInsert" =>
        /\ ~Busy(Poster)
        /\ Truthful(proc'[r].target, proc'[r].decision, proc'[r].id)

HonestSpec == Init /\ [][Next /\ HonestStep]_vars

(* docs/state-bots.md: "A new attempt is authorized only after the previous  *)
(* attempt is resolved", and "operator reconciliation is required before any *)
(* further attempt".  So when two attempts have reached X, the one whose     *)
(* reservation is older has been reconciled.                                 *)
RepostOnlyAfterReconciling ==
    \A a, b \in Attempt :
        OnX(a) # {} /\ OnX(b) # {} /\ grantOf[a] < grantOf[b] =>
            \E i \in DOMAIN reconciliations : reconciliations[i].attempt = a
=============================================================================
