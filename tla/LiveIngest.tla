------------------------------ MODULE LiveIngest ------------------------------
(***************************************************************************)
(* `pnull source review` and `pnull ingest` of a live Legistar source: the *)
(* review gate and the fetch interval, the pages of the feed, each fetched *)
(* over redirects with validators, the discovery of matters and their      *)
(* attachments, and the rows a command leaves.  Commands run beside each   *)
(* other, the operator edits the source list and records reviews, the feed *)
(* changes, and a command may stop at any step.                            *)
(*                                                                         *)
(* A page body is the sequence of its events.                              *)
(***************************************************************************)
EXTENDS Integers, SequencesExt

CONSTANTS
    Command,      \* the commands
    Settings,     \* the entries the source list may hold: [host, interval]
    Host,         \* reviewed and other hosts
    Event,        \* official event ids
    FirstFeeds,   \* what the feed may hold at first
    Items,        \* event -> its items: [matter, files], matter "" when blank
    Limits,       \* what a command may be given: [size, pages] of the pages
    Expiries,     \* what a reviewer may type as the end of a review: [text, instant]
    MaxEvents, MaxMatters, MaxAttachments,
    MaxDownloaded,  \* budget: events over all the pages of a command
    MaxRedirects,   \* MAX_REDIRECTS
    MaxTime,        \* bound: the clock
    MaxCommands,    \* bound: commands ever started
    MaxReviews,     \* bound: reviews ever recorded
    MaxEdits        \* bound: edits of the source list and changes of the feed

ASSUME LimitAssumption ==
    /\ {MaxEvents, MaxMatters} \subseteq Nat \ {0}
    /\ {MaxAttachments, MaxDownloaded, MaxRedirects, MaxTime, MaxCommands, MaxReviews, MaxEdits} \subseteq Nat
ASSUME LimitsAssumption == Limits \subseteq [size : Nat \ {0}, pages : Nat \ {0}]
\* The source gives an event one place in its feed.
ASSUME FeedsAssumption == \A f \in FirstFeeds : f \in Seq(Event) /\ IsInjective(f)
ASSUME SettingsAssumption == Settings \subseteq [host : Host, interval : Nat]
\* An expiry is kept as it was typed.  Its text sorts among the texts of the
\* clock, UTC in RFC 3339, just before that of the time text + 1; it names the
\* time instant.  The two agree when it is written as the clock writes; a date
\* without a time or an offset from UTC moves its text.
ASSUME ExpiriesAssumption == Expiries \subseteq [text : Nat, instant : Nat]

Never == -1

VARIABLES
    source,       \* the source's entry in the configuration file
    reviews,      \* its reviews, oldest first: [settings, hosts, expires]
    fetched,      \* source_fetches: when the last recorded ingest began, or Never
    observed,     \* some fetch of this source observed a body, whose validators there are
    matters,      \* the matters stored
    attachments,  \* the attachments stored: [matter, file]
    feed,         \* the source's events, newest first
    clock,
    job,          \* command -> its step and memory
    commands,     \* commands started (bounded)
    edits,        \* edits and changes made (bounded)
    recorded,     \* history: when the commands that recorded a fetch began
    raced         \* history: two commands have been past the gate at once

world == <<source, feed, clock, edits>>
stored == <<reviews, fetched, observed, matters, attachments>>
history == <<commands, recorded, raced>>
vars == <<world, stored, job, history>>

Page(offset, size) == SubSeq(feed, offset + 1, Min({offset + size, Len(feed)}))
Api(host) == [host |-> host, path |-> "Events"]

Fresh == [pc |-> "page", settings |-> source, hosts |-> {}, limits |-> [size |-> 1, pages |-> 1], started |-> Never,
         page |-> 0, offset |-> 0, downloaded |-> 0, url |-> Api(source.host), redirects |-> 0,
         sent |-> FALSE, body |-> <<>>, events |-> <<>>, matters |-> {}, found |-> {},
         stopped |-> "", steady |-> TRUE]
NoJob == [pc |-> "idle"]

Init ==
    /\ source \in Settings
    /\ reviews = <<>>
    /\ fetched = Never
    /\ observed = FALSE
    /\ matters = {} /\ attachments = {}
    /\ feed \in FirstFeeds
    /\ clock = 0 /\ edits = 0
    /\ job = [c \in Command |-> NoJob]
    /\ commands = 0 /\ recorded = {} /\ raced = FALSE

At(c, pc) == job[c].pc = pc
Become(c, j) == job' = [job EXCEPT ![c] = j]
Active(c) == job[c].pc # "idle"

(***************************************************************************)
(* The gate.                                                               *)
(***************************************************************************)

\* A mistake: the review is matched by its host alone.
HostInScope(review) == source.host \in review.hosts /\ clock <= review.expires.text

\* verify_source_review, of the newest review: the time is compared with the
\* expiry text against text.  The restrictions it also looks at are never
\* written by any command.
InScope(review) ==
    /\ clock <= review.expires.text
    /\ review.settings = source
    /\ source.host \in review.hosts

\* A mistake: any later time will do.
AllowedLater == fetched = Never \/ clock > fetched

\* source_fetch_allowed.
Allowed == fetched = Never \/ clock - fetched >= source.interval

\* live_ingest up to the first page; a refused command changes nothing.
Start(c) ==
    /\ At(c, "idle") /\ commands < MaxCommands
    /\ reviews # <<>> /\ InScope(Last(reviews)) /\ Allowed
    /\ \E limits \in Limits :
         Become(c, [Fresh EXCEPT !.hosts = Last(reviews).hosts, !.limits = limits, !.started = clock])
    /\ commands' = commands + 1
    /\ raced' = (raced \/ \E o \in Command \ {c} : Active(o))
    /\ UNCHANGED <<world, stored, recorded>>

(***************************************************************************)
(* One page: provenance_fetch.                                             *)
(***************************************************************************)

\* allows_host.
Allows(c, host) == host \in job[c].hosts

\* The command ends, with an error unless everything is stored.
Fails(c) ==
    /\ job' = [job EXCEPT ![c] = NoJob]
    /\ UNCHANGED <<world, stored, history>>

\* A page, or the command ends: the host is reviewed, every address it
\* resolves to is public, and the validators of the latest observation, of
\* whatever URL, go with the first hop only.
Request(c) ==
    /\ At(c, "page") /\ Allows(c, job[c].settings.host)
    /\ Become(c, [job[c] EXCEPT !.pc = "waiting", !.url = Api(job[c].settings.host),
                                !.sent = observed])
    /\ UNCHANGED <<world, stored, history>>

\* A mistake: redirects are followed for as long as they lead elsewhere.
AnyRedirect(c, url) == Allows(c, url.host) /\ url # job[c].url

\* follow_redirect.
Follows(c, url) ==
    /\ Allows(c, url.host)
    /\ url # job[c].url
    /\ job[c].redirects < MaxRedirects

Redirected(c) ==
    /\ At(c, "waiting")
    /\ \E host \in Host, path \in {"Events", "moved"} :
         LET url == [host |-> host, path |-> path]
         IN  /\ Follows(c, url)
             /\ Become(c, [job[c] EXCEPT !.url = url, !.redirects = IF @ > MaxRedirects THEN @ ELSE @ + 1,
                                         !.sent = FALSE])
    /\ UNCHANGED <<world, stored, history>>

\* 304, to a request with validators: unchanged is no body, which the ingest
\* takes for an error after the observation is stored.
NotModified(c) ==
    /\ At(c, "waiting") /\ job[c].sent
    /\ Fails(c)

\* The resolver, the transport, an unreviewed, insecure or repeated redirect,
\* one too many, an oversized body, another status or a body that is no page.
RequestFails(c) == At(c, "waiting") /\ Fails(c)

\* 200: the observations of all hops are stored, then the page is parsed.
Body(c) ==
    /\ At(c, "waiting")
    /\ LET body == Page(job[c].offset, job[c].limits.size)
       IN  /\ Become(c, [job[c] EXCEPT !.pc = "parse", !.body = body, !.downloaded = @ + Len(body),
                                      !.url = Api(job[c].settings.host), !.redirects = 0, !.sent = FALSE])
    /\ observed' = TRUE
    /\ UNCHANGED <<world, reviews, fetched, matters, attachments, history>>

(***************************************************************************)
(* The events of a page: paginate_events.                                  *)
(***************************************************************************)

\* discover_matters_from_event: items with a matter number.
Discovered(e) == SelectSeq(Items[e], LAMBDA item : item.matter # "")
MattersOf(e) == {item.matter : item \in Range(Discovered(e))}
AttachmentsOf(e) ==
    FlattenSeq([i \in DOMAIN Discovered(e) |->
        [k \in DOMAIN Discovered(e)[i].files |->
            [matter |-> Discovered(e)[i].matter, file |-> Discovered(e)[i].files[k]]]])

\* The cap is taken on the attachments of the event.
Capped(e) == {AttachmentsOf(e)[i] : i \in {i \in DOMAIN AttachmentsOf(e) : i <= MaxAttachments}}

\* One event: a known one is passed over; after a new one the limits are read.
TakeEvent(taken, e) ==
    IF taken.stopped # "" \/ e \in Range(taken.events) THEN taken
    ELSE LET events == Append(taken.events, e)
             found  == taken.matters \cup MattersOf(e)
         IN  [events |-> events, matters |-> found, found |-> taken.found \cup Capped(e),
              stopped |-> IF Len(events) >= MaxEvents THEN "max events"
                          ELSE IF Cardinality(found) >= MaxMatters THEN "max matters"
                          ELSE ""]

\* The events of the page the command holds, on top of those it has.
Taken(j) ==
    LET taken[n \in 0..Len(j.body)] ==
            IF n = 0
            THEN [events |-> j.events, matters |-> j.matters, found |-> j.found, stopped |-> ""]
            ELSE TakeEvent(taken[n-1], j.body[n])
    IN  taken[Len(j.body)]

\* A mistake: the last event of the page is counted twice.
OffsetAfter(offset, size) == offset + size + 1

NextOffset(offset, size) == offset + size

\* Why the loop ends after a page, or "".
StopReason(j) ==
    IF Taken(j).stopped # "" THEN Taken(j).stopped
    ELSE IF Taken(j).events = j.events THEN "non-progressing page"
    ELSE IF j.page + 1 = j.limits.pages THEN "max pages"
    ELSE ""

\* What the loop does with a whole page.
TakePage(j) ==
    [j EXCEPT !.pc = IF StopReason(j) = "" THEN "page" ELSE "record",
              !.page = @ + 1, !.body = <<>>,
              !.offset = IF StopReason(j) = "" THEN NextOffset(@, j.limits.size) ELSE @,
              !.events = Taken(j).events, !.matters = Taken(j).matters,
              !.found = Taken(j).found, !.stopped = StopReason(j)]

Parse(c) ==
    /\ At(c, "parse") /\ job[c].downloaded <= MaxDownloaded
    /\ Become(c, TakePage(job[c]))
    /\ UNCHANGED <<world, stored, history>>

OverBudget(c) == At(c, "parse") /\ job[c].downloaded > MaxDownloaded /\ Fails(c)

(***************************************************************************)
(* What a command leaves.                                                  *)
(***************************************************************************)

\* record_source_fetch overwrites, with the time at which this command began.
RecordedTime(c) == job[c].started

Record(c) ==
    /\ At(c, "record")
    /\ fetched' = RecordedTime(c)
    /\ recorded' = recorded \cup {job[c].started}
    /\ Become(c, [job[c] EXCEPT !.pc = "store", !.events = <<>>, !.offset = 0, !.stopped = "",
                                !.hosts = {}, !.limits = [size |-> 1, pages |-> 1]])
    /\ UNCHANGED <<world, reviews, observed, matters, attachments, commands, raced>>

NewMatters(c) == job[c].matters \ matters
NewAttachments(c) == job[c].found \ attachments

InsertMatter(c) ==
    /\ At(c, "store")
    /\ NewMatters(c) # {}
    /\ matters' = matters \cup {CHOOSE m \in NewMatters(c) : TRUE}
    /\ UNCHANGED <<world, reviews, fetched, observed, attachments, job, history>>

MattersStored(c) == NewMatters(c) = {}

InsertAttachment(c) ==
    /\ At(c, "store") /\ MattersStored(c)
    /\ NewAttachments(c) # {}
    /\ attachments' = attachments \cup {CHOOSE a \in NewAttachments(c) : TRUE}
    /\ UNCHANGED <<world, reviews, fetched, observed, matters, job, history>>

Done(c) == At(c, "store") /\ MattersStored(c) /\ NewAttachments(c) = {} /\ Fails(c)

Crash(c) == Active(c) /\ Fails(c)

(***************************************************************************)
(* The operator, the source and time.                                      *)
(***************************************************************************)

\* source review record, for the entry as it is now; nothing parses the expiry.
RecordReview ==
    /\ Len(reviews) < MaxReviews
    /\ \E expires \in Expiries :
         reviews' = Append(reviews, [settings |-> source, hosts |-> {source.host}, expires |-> expires])
    /\ UNCHANGED <<world, fetched, observed, matters, attachments, job, history>>

\* source review capture: robots.txt is fetched, without a review, and
\* observed under the same source.
Capture ==
    /\ ~observed /\ observed' = TRUE
    /\ UNCHANGED <<world, reviews, fetched, matters, attachments, job, history>>

EditSource ==
    /\ edits < MaxEdits /\ edits' = edits + 1
    /\ source' \in Settings \ {source}
    /\ UNCHANGED <<feed, clock, stored, job, history>>

\* A new event is published, or the newest is withdrawn.
FeedChanges ==
    /\ edits < MaxEdits /\ edits' = edits + 1
    /\ \/ \E e \in Event \ Range(feed) : feed' = <<e>> \o feed
       \/ feed # <<>> /\ feed' = Tail(feed)
    /\ job' = [c \in Command |-> IF Active(c) THEN [job[c] EXCEPT !.steady = FALSE] ELSE job[c]]
    /\ UNCHANGED <<source, clock, stored, history>>

Tick ==
    /\ clock < MaxTime /\ clock' = clock + 1
    /\ UNCHANGED <<source, feed, edits, stored, job, history>>

\* What a running command does of itself; every request ends, at the latest
\* when its timeout does.
Step(c) ==
    \/ Request(c) \/ Redirected(c) \/ NotModified(c) \/ Body(c) \/ RequestFails(c)
    \/ Parse(c) \/ OverBudget(c) \/ Record(c) \/ InsertMatter(c) \/ InsertAttachment(c) \/ Done(c)

Next ==
    \/ \E c \in Command : Start(c) \/ Step(c) \/ Crash(c)
    \/ RecordReview \/ Capture \/ EditSource \/ FeedChanges \/ Tick

Spec == Init /\ [][Next]_vars

\* A command runs on while its process does.
FairSpec == Spec /\ \A c \in Command : WF_vars(Step(c))

(***************************************************************************)
(* Properties.                                                             *)
(***************************************************************************)

\* An expiry whose text sorts no later than the time it names.
SortsInTime(expires) == expires.text <= expires.instant

\* Every request, after redirects too, goes to the host of a review that a
\* human recorded for exactly the settings the command runs under, whatever was
\* edited or recorded since.  The text of its expiry had not passed when the
\* command began; nor had the time it names, if it was typed so that it sorts no
\* later than that time.  With an offset east of UTC it sorts later, and the
\* code does fetch after such a review has ended.
\* (main.rs 717-750, http lib.rs 267-425.)
FetchesAreReviewed ==
    \A c \in Command : At(c, "waiting") =>
        \E r \in Range(reviews) :
            /\ r.settings = job[c].settings /\ job[c].url.host \in r.hosts
            /\ job[c].started <= r.expires.text
            /\ SortsInTime(r.expires) => job[c].started <= r.expires.instant

\* A command past the gate began an interval after every ingest that was
\* recorded, as long as no two commands were past the gate together.
\* (core lib.rs 460-487, main.rs 764-811.)
PacedUnlessRaced ==
    raced \/ \A c \in Command : Active(c) /\ ~At(c, "store") =>
        \A t \in recorded : t + job[c].settings.interval <= job[c].started

\* Over a feed that did not change meanwhile, an ingest returns the newest
\* events, each once and in order: all of them unless a limit says otherwise.
\* (ingest lib.rs 1057-1168.)
RunReturnsTheFeed ==
    \A c \in Command : At(c, "record") /\ job[c].steady =>
        LET n == Len(job[c].events)
        IN  /\ job[c].events = SubSeq(feed, 1, n)
            /\ CASE job[c].stopped = "max events" -> n = MaxEvents
                 [] job[c].stopped = "max pages" -> n = Min({Len(feed), job[c].limits.pages * job[c].limits.size})
                 [] job[c].stopped = "non-progressing page" -> n = Len(feed)
                 [] OTHER -> Cardinality(job[c].matters) >= MaxMatters

\* Every ingest ends: neither redirects nor pages keep it for ever.
\* (http lib.rs 397-425, ingest lib.rs 1057-1168.)
CommandsEnd == \A c \in Command : Active(c) ~> ~Active(c)

=============================================================================
