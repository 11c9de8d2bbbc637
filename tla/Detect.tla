------------------------------- MODULE Detect -------------------------------
(***************************************************************************)
(* pnull-detect over the stored versions of one document: the taxonomy     *)
(* scan and its state classification, the comparison of two versions, the  *)
(* alert, and the subjects and actions bound to a matter.                  *)
(*                                                                         *)
(* A version is a sequence of lines; a line is the set of phrases it       *)
(* contains, the phrases it denies ("not p", "no p", "never p", "if p",    *)
(* "unless p") and the vendors its procurement phrases name.  Two lines    *)
(* are the same text iff they are the same record.  Line numbers count     *)
(* from 1, and 0 stands for no citation.                                   *)
(***************************************************************************)
EXTENDS Integers, Sequences, SequencesExt, FiniteSets, FiniteSetsExt

CONSTANTS
    Lines,          \* the lines a version may have
    Terms,          \* rule -> its terms, in the order of the taxonomy file
    FalsePositives, \* rule -> its false-positive phrases
    Category,       \* rule -> "vendor", "technology" or another category
    SourceTypes,    \* the source types a record may have
    ContextLines,   \* how far from a term a state phrase may stand (3)
    MaxLines        \* bound: lines of a version

Rules == DOMAIN Terms

Line == [id: Nat, says: SUBSET STRING, denies: SUBSET STRING,
         names: SUBSET (STRING \X Rules), refuses: SUBSET (STRING \X Rules)]

\* validate_rules, which load_rules applies before any command uses a rule.
\* "primary" marks the primary subject of a matter and is the name of no rule.
ASSUME RulesAssumption ==
    /\ Rules # {} /\ "primary" \notin Rules
    /\ \A r \in Rules : Terms[r] \in Seq(STRING) \ {<<>>}
    /\ DOMAIN FalsePositives = Rules /\ DOMAIN Category = Rules
ASSUME LinesAssumption ==
    /\ Lines \subseteq Line
    /\ \A l \in Lines : l.denies \subseteq l.says /\ l.refuses \subseteq l.names
ASSUME BoundAssumption == ContextLines \in Nat /\ MaxLines \in Nat \ {0}

VARIABLES
    versions,   \* the stored evidence, a later version superseding the earlier
    sourceType, \* the source type of the record
    findings,   \* version -> its stored finding, or NoFinding
    alerts,     \* version -> the stored alert built from the finding, or NoFinding
    diff,       \* the changes the last `pnull diff` reported
    bound,      \* the subjects and actions the last extraction returned for the matter
    boundOf     \* history: the version it read, 0 before the first

vars == <<versions, sourceType, findings, alerts, diff, bound, boundOf>>

NoFinding == [state |-> "None"]
NoneBound == [subjects |-> {}, actions |-> {}]

Says(doc, i, phrases) == doc[i].says \cap phrases # {}
LinesWith(doc, phrases) == {i \in DOMAIN doc : Says(doc, i, phrases)}
\* Iterator::position over the lines, 0 when there is none.
FirstLine(doc, phrases) ==
    IF LinesWith(doc, phrases) = {} THEN 0 ELSE Min(LinesWith(doc, phrases))
TextAt(doc, i) == IF i = 0 THEN {} ELSE {doc[i]}
Distance(i, j) == IF i < j THEN j - i ELSE i - j

(***************************************************************************)
(* The scan.                                                               *)
(***************************************************************************)

\* A mistake: the term's first line is the only one looked at.
FirstHitOnly(doc, r, term) ==
    {i \in LinesWith(doc, {term}) : i = FirstLine(doc, {term})} \ LinesWith(doc, FalsePositives[r])

\* The lines with the term and none of the rule's false-positive phrases.
CleanLines(doc, r, term) == LinesWith(doc, {term}) \ LinesWith(doc, FalsePositives[r])

\* The line a rule cites: the first clean line of its first term that has one.
RuleLine(doc, r) ==
    LET hits == {k \in DOMAIN Terms[r] : CleanLines(doc, r, Terms[r][k]) # {}}
    IN  IF hits = {} THEN 0 ELSE Min(CleanLines(doc, r, Terms[r][Min(hits)]))

Matched(doc) == {r \in Rules : RuleLine(doc, r) # 0}
TermCites(doc) == {RuleLine(doc, r) : r \in Matched(doc)}

\* PATTERNS: what a source must say for each state.
StatePhrases == [
    ContractExecuted       |-> {"contract executed", "signed a", "entered into a contract"},
    RenewalOrExpansion     |-> {"renewal", "renewed", "expansion", "expanded", "additional technology"},
    Approved               |-> {"finally passed", "approved", "adopted", "authorized"},
    Rejected               |-> {"rejected", "denied", "failed by a vote"},
    PublicHearingScheduled |-> {"public hearing scheduled", "public hearing on"},
    VoteScheduled          |-> {"vote scheduled", "will vote", "second reading"},
    PolicyChange           |-> {"policy change", "policy amended", "policy revised"},
    DeploymentReported     |-> {"deployed", "in operation", "currently using", "implemented"},
    Proposal               |-> {"proposal", "proposed", "seeks to", "request for information", "referred"}]

\* A mistake: a phrase counts whatever stands before it.
NeverDenied(line, phrase) == FALSE

IsNegatedOrConditional(line, phrase) ==
    \/ phrase \in line.denies
    \/ phrase = "approved" /\ "subject to approval" \in line.says

\* The line says one of the phrases and does not deny that one.
Asserts(line, phrases) ==
    \E p \in phrases \cap line.says : ~IsNegatedOrConditional(line, p)

\* classify_near: an Action: field, or a line close to one that cites a term.
Accepts(doc, cites, i) ==
    \/ Says(doc, i, {"Action:"})
    \/ \E c \in cites : Distance(c, i) <= ContextLines

Candidates(doc, cites) ==
    {c \in (DOMAIN StatePhrases) \X (DOMAIN doc) :
        Asserts(doc[c[2]], StatePhrases[c[1]]) /\ Accepts(doc, cites, c[2])}

\* One supported state is reported at its last line, several are Unknown.
Classify(doc, cites) ==
    LET found == Candidates(doc, cites)
        last  == IF found = {} THEN 0 ELSE Max({c[2] : c \in found})
    IN  CASE found = {} -> [state |-> "MentionDetected", line |-> 0]
          [] Cardinality({c[1] : c \in found}) > 1 -> [state |-> "Unknown", line |-> last]
          [] OTHER -> [state |-> (CHOOSE c \in found : c[2] = last)[1], line |-> last]

ScanText(doc) ==
    IF Matched(doc) = {} THEN NoFinding
    ELSE LET near == Classify(doc, TermCites(doc))
         IN  [state |-> near.state, matched |-> Matched(doc), terms |-> TermCites(doc),
              stateLine |-> near.line]

FirstCite(f) == Min(f.terms)

(***************************************************************************)
(* The comparison of two versions.  A change cites a line of each side, or *)
(* 0 where the side has none.                                              *)
(***************************************************************************)

Change(kind, topic, before, after) ==
    [kind |-> kind, topic |-> topic, before |-> before, after |-> after]

\* field_change: the first line with the prefix reads differently.
FieldChange(old, new, kind, prefix) ==
    LET before == FirstLine(old, {prefix})
        after  == FirstLine(new, {prefix})
    IN  IF TextAt(old, before) # TextAt(new, after)
        THEN {Change(kind, prefix, before, after)} ELSE {}

\* A mistake: a line that only moved is taken for a changed one.
MovedLineChange(old, new, kind, topics) ==
    LET before == FirstLine(old, topics)
        after  == FirstLine(new, topics)
    IN  IF before # 0 /\ after # 0 /\ before # after
        THEN {Change(kind, "topic", before, after)} ELSE {}

\* compare_topic_line: both versions have a line on it, and the first ones differ.
TopicChange(old, new, kind, topics) ==
    LET before == FirstLine(old, topics)
        after  == FirstLine(new, topics)
    IN  IF before # 0 /\ after # 0 /\ old[before] # new[after]
        THEN {Change(kind, "topic", before, after)} ELSE {}

Prices == {"$10", "$20"}
Durations == {"1 year", "12 months"}
ValuesIn(doc, values) == UNION {doc[i].says \cap values : i \in DOMAIN doc}

\* compare_pattern: the sets of values differ; each side cites its first value.
PatternChange(old, new, kind, values) ==
    IF ValuesIn(old, values) # ValuesIn(new, values)
    THEN {Change(kind, "values", FirstLine(old, values), FirstLine(new, values))} ELSE {}

VendorTerms == UNION {{Terms[r][k] : k \in DOMAIN Terms[r]} : r \in {r \in Rules : Category[r] = "vendor"}}

StandardChanges(old, new) == UNION {
    FieldChange(old, new, "changed_vote_date", "Meeting date:"),
    FieldChange(old, new, "changed_procurement_state", "Action:"),
    TopicChange(old, new, "changed_vote_date", {"finally passed:"}),
    PatternChange(old, new, "changed_price", Prices),
    PatternChange(old, new, "changed_contract_duration", Durations),
    TopicChange(old, new, "changed_retention_provision", {"retention", "retain", "delete after"}),
    TopicChange(old, new, "changed_data_sharing_provision",
                {"data sharing", "share data", "third-party access"}),
    TopicChange(old, new, "changed_scope_or_quantity",
                {"camera", "drone", "license", "unit", "quantity"}),
    TopicChange(old, new, "changed_vendor_or_subcontractor", VendorTerms)}

\* matched_rule_ids, which looks at terms only and not at false positives.
RulesNamed(doc) ==
    {r \in Rules : LinesWith(doc, {Terms[r][k] : k \in DOMAIN Terms[r]}) # {}}

Compare(old, new) ==
    StandardChanges(old, new)
    \cup (IF (LinesWith(old, {"amendment"}) = {}) # (LinesWith(new, {"amendment"}) = {})
          THEN {Change("new_contract_or_amendment", "amendment",
                       FirstLine(old, {"amendment"}), FirstLine(new, {"amendment"}))}
          ELSE {})
    \cup {Change("removed_relevant_language", t, FirstLine(old, {t}), 0) :
            t \in {t \in {"privacy", "retention", "data sharing", "shall not share"} :
                     LinesWith(old, {t}) # {} /\ LinesWith(new, {t}) = {}}}
    \cup (IF RulesNamed(new) \subseteq RulesNamed(old) THEN {}
          ELSE {Change("new_surveillance_related_agenda_item", "term", 0,
                       IF ScanText(new) = NoFinding THEN 0 ELSE FirstCite(ScanText(new)))})

(***************************************************************************)
(* Subjects and actions of a matter.                                       *)
(***************************************************************************)

HasAny(doc, phrases) == LinesWith(doc, phrases) # {}

DocumentRole(doc, type) ==
    CASE HasAny(doc, {"be it ordained", "ordinance no.", "ordained by"}) -> "Ordinance"
      [] HasAny(doc, {"presentation", "slide", "work session", "informational briefing"}) -> "Presentation"
      [] type = "Agenda" \/ HasAny(doc, {"Action:"}) -> "Agenda"
      [] HasAny(doc, {"minutes"}) /\ HasAny(doc, {"roll call", "adopted"}) -> "Minutes"
      [] type \in {"Contract", "Amendment"} -> type
      [] type = "OfficialApi" -> "Other"
      [] HasAny(doc, {"solicitation", "request for proposals"}) -> "Solicitation"
      [] HasAny(doc, {"policy"}) -> "Policy"
      [] OTHER -> "Other"

\* infer_primary_kind, without the guess from the document's title.
InferPrimaryKind(doc) ==
    CASE HasAny(doc, {"ordinance", "be it ordained"}) -> "Ordinance"
      [] HasAny(doc, {"solicitation", "request for proposals"}) -> "Solicitation"
      [] HasAny(doc, {"policy"}) -> "Policy"
      [] OTHER -> "None"

\* primary_subject: None when neither role nor text says what the matter is.
PrimaryKind(doc, type) ==
    LET role == DocumentRole(doc, type)
    IN  IF role \in {"Ordinance", "Policy", "Solicitation", "Contract", "Amendment"}
        THEN role ELSE InferPrimaryKind(doc)

\* PRIORITY: the actions on the primary subject, the strongest first.
ActionPriority == <<
    [kind |-> "Rejected",           says |-> {"rejected", "denied", "failed by a vote"}],
    [kind |-> "Approved",           says |-> {"finally passed", "approved", "adopted", "authorized"}],
    [kind |-> "DeploymentReported", says |-> {"deployed", "in operation", "currently using"}],
    [kind |-> "PolicyChanged",      says |-> {"policy change", "policy amended", "policy revised"}],
    [kind |-> "VoteScheduled",      says |-> {"vote scheduled", "will vote", "second reading"}],
    [kind |-> "HearingScheduled",   says |-> {"public hearing scheduled", "scheduled for hearing", "public hearing on"}],
    [kind |-> "Proposed",           says |-> {"proposal", "proposed", "referred", "request for information"}]>>

Detected(doc) ==
    {k \in DOMAIN ActionPriority : \E i \in DOMAIN doc : Asserts(doc[i], ActionPriority[k].says)}

\* A mistake: the strongest whatever else the text says.
StrongestAction(doc) ==
    IF Detected(doc) = {} THEN {} ELSE {ActionPriority[Min(Detected(doc))].kind}

\* classify_matter_actions: the strongest, or none when the outcomes conflict.
\* The phrases count wherever they stand, whatever they are said of.
MatterActions(doc) ==
    LET found == Detected(doc)
        kinds == {ActionPriority[k].kind : k \in found}
    IN  IF found = {} \/ {"Approved", "Rejected"} \subseteq kinds THEN {}
        ELSE {ActionPriority[Min(found)].kind}

\* CANDIDATES: the phrases that bind an action to a named vendor, in order.
BindingPhrases == <<
    [kind |-> "Renewed",  says |-> {"renewed with", "renewal of", "renewed contract"}],
    [kind |-> "Expanded", says |-> {"expanded", "expansion of", "expanded use of"}],
    [kind |-> "Executed", says |-> {"contract with", "agreement with",
                                    "entered into a contract with", "signed a contract with"}],
    [kind |-> "Approved", says |-> {"approved purchase of", "approved the purchase of",
                                    "approved a contract with"}],
    [kind |-> "Awarded",  says |-> {"awarded to", "award to", "contract awarded to", "awarded"}]>>

BoundTo(doc, r, phrases) == \E i \in DOMAIN doc, p \in phrases : <<p, r>> \in doc[i].names

VendorAction(doc, r) ==
    LET found == {k \in DOMAIN BindingPhrases : BoundTo(doc, r, BindingPhrases[k].says)}
    IN  IF found = {} THEN "Mentioned" ELSE BindingPhrases[Min(found)].kind

\* rule_matches, for the categories that become subjects.
VendorsIn(doc) == {r \in Matched(doc) : Category[r] \in {"vendor", "technology"}}

\* extract_matter_subjects_and_actions.  The citations of the actions, which are
\* the labels of the finding for every one of them, are left out; the primary
\* subject's name is no rule's label, so dedupe_by_id finds no duplicates.
Extract(doc, type) ==
    LET kind == PrimaryKind(doc, type)
    IN  [subjects |-> (IF kind = "None" THEN {} ELSE {<<"primary", kind>>})
                      \cup {<<r, Category[r]>> : r \in VendorsIn(doc)},
         actions  |-> (IF kind = "None" THEN {} ELSE {<<"primary", a>> : a \in MatterActions(doc)})
                      \cup {<<r, VendorAction(doc, r)>> : r \in VendorsIn(doc)}]

(***************************************************************************)
(* The commands.                                                           *)
(***************************************************************************)

Documents == UNION {[1..n -> Lines] : n \in 1..MaxLines}

Init ==
    /\ versions \in {<<d>> : d \in Documents}
    /\ sourceType \in SourceTypes
    /\ findings = <<NoFinding>>
    /\ alerts = <<NoFinding>>
    /\ diff = {}
    /\ bound = NoneBound /\ boundOf = 0

\* The source serves one line added, removed or replaced.
Revisions(doc) ==
    (IF Len(doc) = 1 THEN {} ELSE {RemoveAt(doc, i) : i \in DOMAIN doc})
    \cup {[doc EXCEPT ![i] = l] : i \in DOMAIN doc, l \in Lines}
    \cup (IF Len(doc) = MaxLines THEN {}
          ELSE {InsertAt(doc, i, l) : i \in 1..(Len(doc) + 1), l \in Lines})

\* Another ingest stores a version that supersedes the first.
Supersede ==
    /\ Len(versions) = 1
    /\ \E d \in Revisions(versions[1]) \ {versions[1]} : versions' = Append(versions, d)
    /\ findings' = Append(findings, NoFinding)
    /\ alerts' = Append(alerts, NoFinding)
    /\ UNCHANGED <<sourceType, diff, bound, boundOf>>

\* build_alert: the finding's citations under the diff's first summary, if any.
AlertOf(f) == IF f = NoFinding THEN NoFinding
              ELSE [state |-> f.state, cites |-> f.terms \cup ({f.stateLine} \ {0})]

\* `pnull scan` goes over the stored records in the order of their hashes and
\* may stop anywhere; it scans each, writes its rules and quotes into the record
\* again (left out), and inserts the finding, then the alert.  Both are left
\* alone when they are stored already under the same content hash.
InsertFinding(v) ==
    /\ findings[v] = NoFinding /\ ScanText(versions[v]) # NoFinding
    /\ findings' = [findings EXCEPT ![v] = ScanText(versions[v])]
    /\ UNCHANGED <<versions, sourceType, alerts, diff, bound, boundOf>>

InsertAlert(v) ==
    /\ findings[v] # NoFinding /\ alerts[v] = NoFinding
    /\ alerts' = [alerts EXCEPT ![v] = AlertOf(ScanText(versions[v]))]
    /\ UNCHANGED <<versions, sourceType, findings, diff, bound, boundOf>>

ScanAll == \E v \in DOMAIN versions : InsertFinding(v) \/ InsertAlert(v)

\* `pnull diff`: the superseding pair.
PrintDiff ==
    /\ Len(versions) = 2
    /\ diff' = Compare(versions[1], versions[2])
    /\ diff' # diff
    /\ UNCHANGED <<versions, sourceType, findings, alerts, bound, boundOf>>

\* The subjects and actions of the newest version are bound to its matter.
BindMatter ==
    /\ boundOf # Len(versions)
    /\ boundOf' = Len(versions)
    /\ bound' = Extract(versions[Len(versions)], sourceType)
    /\ UNCHANGED <<versions, sourceType, findings, alerts, diff>>

Next == Supersede \/ ScanAll \/ PrintDiff \/ BindMatter

Spec == Init /\ [][Next]_vars

(***************************************************************************)
(* Properties.                                                             *)
(***************************************************************************)

\* A line of the rule's that is evidence for it: a term, no false positive.
Evidences(line, r) ==
    /\ \E k \in DOMAIN Terms[r] : Terms[r][k] \in line.says
    /\ FalsePositives[r] \cap line.says = {}

\* A finding names exactly the rules the text has evidence for, and its alert
\* quotes a line of evidence for each, even when the first lines with the term
\* are false positives.  (lib.rs 72-100; the test
\* false_positive_elsewhere_does_not_hide_real_vendor_reference.)
MatchesAreCited ==
    \A v \in DOMAIN versions :
        findings[v] # NoFinding =>
            /\ findings[v].matched =
                 {r \in Rules : \E i \in DOMAIN versions[v] : Evidences(versions[v][i], r)}
            /\ alerts[v] # NoFinding =>
                 \A r \in findings[v].matched :
                    \E i \in alerts[v].cites : Evidences(versions[v][i], r)

\* Some phrase of the state stands in the line, not denied.
Supports(line, s) ==
    \E p \in StatePhrases[s] :
        p \in line.says \ line.denies /\ (p = "approved" => "subject to approval" \notin line.says)

\* A stronger state than a mention is asserted only when a line in the context
\* of a cited term, or the Action: field, says so without denying it, the alert
\* quotes that line, and no other line in the context supports another state.
\* (methodology.md:27, lib.rs 153-265.)
StatesAreSupported ==
    \A v \in DOMAIN versions :
        findings[v] # NoFinding /\ findings[v].state \in DOMAIN StatePhrases =>
            LET doc == versions[v]
                context == {i \in DOMAIN doc :
                              \/ "Action:" \in doc[i].says
                              \/ \E c \in findings[v].terms : i - c \in (-ContextLines)..ContextLines}
            IN  /\ findings[v].stateLine \in context
                /\ alerts[v] # NoFinding => findings[v].stateLine \in alerts[v].cites
                /\ Supports(doc[findings[v].stateLine], findings[v].state)
                /\ \A i \in context, s \in DOMAIN StatePhrases :
                     Supports(doc[i], s) => s = findings[v].state

\* The lines of a version that some comparison looks at.
Relevant(doc) ==
    LET kept[n \in 0..Len(doc)] ==
            IF n = 0 THEN <<>>
            ELSE IF doc[n].says = {} THEN kept[n-1] ELSE Append(kept[n-1], doc[n])
    IN  kept[Len(doc)]

\* A change of the text around the configured language is not reported as a
\* change of that language: the kinds of change are those of the versions with
\* every other line taken out.  (lib.rs 306-470, "No configured meaningful
\* changes detected" main.rs:923.)
OnlyRelevantLinesMatter ==
    diff # {} =>
        {<<c.kind, c.topic>> : c \in diff} =
            {<<c.kind, c.topic>> : c \in Compare(Relevant(versions[1]), Relevant(versions[2]))}

Outcomes == {BindingPhrases[k].kind : k \in DOMAIN BindingPhrases}

\* The scan for the alert and the extraction for the matter read one text with
\* phrase tables, contexts and conflict rules of their own, and yet what they
\* tell the reader does not contradict: where a finding reports an approval or a
\* rejection, the matter's own action is the same one or none, whatever the rest
\* of the text says of others.  (lib.rs 153-278, 893-974.)
ReadingsAgree ==
    \A v \in DOMAIN versions :
        /\ boundOf = v
        /\ findings[v] # NoFinding /\ findings[v].state \in {"Approved", "Rejected"}
        => \A a \in bound.actions : a[1] = "primary" => a[2] = findings[v].state

\* What the comment on vendor_action and the methodology say of a vendor's
\* action: an explicit phrase binds it, and a negated one does not.
VendorActionsAreExplicit ==
    \A a \in bound.actions :
        a[1] # "primary" /\ a[2] \in Outcomes =>
            \E v \in DOMAIN versions, k \in DOMAIN BindingPhrases :
                /\ BindingPhrases[k].kind = a[2]
                /\ \E i \in DOMAIN versions[v], p \in BindingPhrases[k].says :
                     <<p, a[1]>> \in versions[v][i].names \ versions[v][i].refuses

=============================================================================
