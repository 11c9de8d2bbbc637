-------------------------- MODULE LiveIngest_proofs --------------------------
(***************************************************************************)
(* Proofs about LiveIngest, for any commands, hosts, settings, feeds and   *)
(* bounds: every request goes to a host reviewed for the settings of its   *)
(* command, the fetch interval holds unless two commands met, and an ingest *)
(* of a steady feed returns its newest events.                             *)
(***************************************************************************)
EXTENDS LiveIngest, FiniteSetTheorems, WellFoundedInduction, SequenceTheorems, TLAPS

Review == [settings : Settings, hosts : SUBSET Host, expires : [text : Nat, instant : Nat]]

\* What every running command has in memory, whatever else it holds.
Fields == {"pc", "settings", "hosts", "started", "url"}
BeforeStore == {"page", "waiting", "parse", "record"}
Running(j) ==
    /\ Fields \subseteq DOMAIN j
    /\ j.pc \in BeforeStore \cup {"store"}
    /\ j.settings \in Settings
    /\ j.started \in Nat

TypeInv ==
    /\ source \in Settings
    /\ clock \in Nat
    /\ reviews \in Seq(Review)
    /\ fetched \in Nat \cup {Never}
    /\ recorded \in SUBSET Nat
    /\ DOMAIN job = Command
    /\ \A c \in Command : job[c] = NoJob \/ Running(job[c])

\* A step keeps what a command was given at the gate.
Carries(j, k) ==
    /\ Fields \subseteq DOMAIN k
    /\ k.settings = j.settings
    /\ k.hosts = j.hosts
    /\ k.started = j.started

(***************************************************************************)
(* What a step can do to the commands.                                     *)
(***************************************************************************)

\* Only the command that steps is changed, and its process goes on or ends.
Others(c) == DOMAIN job' = Command /\ \A o \in Command \ {c} : job'[o] = job[o]

LEMMA BecomeIs ==
    ASSUME TypeInv, NEW c \in Command, NEW j, Become(c, j)
    PROVE  Others(c) /\ job'[c] = j
  BY DEF TypeInv, Become, Others

LEMMA FailsIs ==
    ASSUME TypeInv, NEW c \in Command, Fails(c)
    PROVE  Others(c) /\ job'[c] = NoJob
  BY DEF TypeInv, Fails, Others

LEMMA StartIs ==
    ASSUME TypeInv, NEW c \in Command, Start(c)
    PROVE  /\ Others(c)
           /\ Running(job'[c]) /\ job'[c].pc = "page"
           /\ job'[c].settings = source /\ job'[c].hosts = Last(reviews).hosts
           /\ job'[c].started = clock
<1>1. PICK limits \in Limits :
        Become(c, [Fresh EXCEPT !.hosts = Last(reviews).hosts, !.limits = limits, !.started = clock])
  BY DEF Start
<1> DEFINE j == [Fresh EXCEPT !.hosts = Last(reviews).hosts, !.limits = limits, !.started = clock]
<1>2. Fields \subseteq DOMAIN j /\ j.pc = "page" /\ j.settings = source
        /\ j.hosts = Last(reviews).hosts /\ j.started = clock
  BY DEF Fresh, Fields
<1>3. Become(c, j)
  BY <1>1
<1>4. Running(j)
  BY <1>2 DEF Running, TypeInv, BeforeStore
<1> HIDE DEF j
<1> QED
  BY <1>2, <1>3, <1>4, BecomeIs

LEMMA RequestIs ==
    ASSUME TypeInv, NEW c \in Command, Request(c)
    PROVE  /\ Others(c) /\ Carries(job[c], job'[c])
           /\ job[c].pc = "page" /\ job'[c].pc = "waiting"
           /\ job'[c].url.host \in job'[c].hosts
<1> DEFINE j == [job[c] EXCEPT !.pc = "waiting", !.url = Api(job[c].settings.host), !.sent = observed]
<1>1. Become(c, j) /\ job[c].pc = "page" /\ job[c].settings.host \in job[c].hosts
  BY DEF Request, At, Allows
<1>2. Running(job[c])
  BY <1>1 DEF TypeInv, NoJob
<1>3. Carries(job[c], j) /\ j.pc = "waiting" /\ j.url = Api(job[c].settings.host)
  BY <1>2 DEF Running, Fields, Carries
<1>4. Api(job[c].settings.host).host = job[c].settings.host
  BY DEF Api
<1> HIDE DEF j
<1> QED
  BY <1>1, <1>3, <1>4, BecomeIs DEF Carries
LEMMA RedirectedIs ==
    ASSUME TypeInv, NEW c \in Command, Redirected(c)
    PROVE  /\ Others(c) /\ Carries(job[c], job'[c])
           /\ job[c].pc = "waiting" /\ job'[c].pc = "waiting"
           /\ job'[c].url.host \in job'[c].hosts
<1>1. PICK host \in Host, path \in {"Events", "moved"} :
        /\ Allows(c, host)
        /\ Become(c, [job[c] EXCEPT !.url = [host |-> host, path |-> path],
                                    !.redirects = IF @ > MaxRedirects THEN @ ELSE @ + 1, !.sent = FALSE])
  BY DEF Redirected, Follows
<1> DEFINE j == [job[c] EXCEPT !.url = [host |-> host, path |-> path],
                               !.redirects = IF @ > MaxRedirects THEN @ ELSE @ + 1, !.sent = FALSE]
<1>2. Become(c, j) /\ job[c].pc = "waiting" /\ host \in job[c].hosts
  BY <1>1 DEF Redirected, At, Allows
<1>3. Running(job[c])
  BY <1>2 DEF TypeInv, NoJob
<1>4. Carries(job[c], j) /\ j.pc = "waiting" /\ j.url.host = host
  BY <1>2, <1>3 DEF Running, Fields, Carries
<1> HIDE DEF j
<1> QED
  BY <1>2, <1>4, BecomeIs DEF Carries

LEMMA BodyIs ==
    ASSUME TypeInv, NEW c \in Command, Body(c)
    PROVE  /\ Others(c) /\ Carries(job[c], job'[c])
           /\ job[c].pc = "waiting" /\ job'[c].pc = "parse"
<1> DEFINE j == [job[c] EXCEPT !.pc = "parse", !.body = Page(job[c].offset, job[c].limits.size),
                    !.downloaded = @ + Len(Page(job[c].offset, job[c].limits.size)),
                    !.url = Api(job[c].settings.host), !.redirects = 0, !.sent = FALSE]
<1>1. Become(c, j) /\ job[c].pc = "waiting"
  BY DEF Body, At
<1>2. Running(job[c])
  BY <1>1 DEF TypeInv, NoJob
<1>3. Carries(job[c], j) /\ j.pc = "parse"
  BY <1>2 DEF Running, Fields, Carries
<1> HIDE DEF j
<1> QED
  BY <1>1, <1>3, BecomeIs DEF Carries

LEMMA ParseIs ==
    ASSUME TypeInv, NEW c \in Command, Parse(c)
    PROVE  /\ Others(c) /\ Carries(job[c], job'[c])
           /\ job[c].pc = "parse" /\ job'[c].pc \in {"page", "record"}
<1> DEFINE j == TakePage(job[c])
<1>1. Become(c, j) /\ job[c].pc = "parse"
  BY DEF Parse, At
<1>2. Running(job[c])
  BY <1>1 DEF TypeInv, NoJob
<1>3. Carries(job[c], j) /\ j.pc \in {"page", "record"}
  BY <1>2 DEF TakePage, Running, Fields, Carries
<1> HIDE DEF j
<1> QED
  BY <1>1, <1>3, BecomeIs DEF Carries

LEMMA RecordIs ==
    ASSUME TypeInv, NEW c \in Command, Record(c)
    PROVE  /\ Others(c) /\ Running(job[c]) /\ Running(job'[c])
           /\ job[c].pc = "record" /\ job'[c].pc = "store"
<1> DEFINE j == [job[c] EXCEPT !.pc = "store", !.events = <<>>, !.offset = 0, !.stopped = "",
                               !.hosts = {}, !.limits = [size |-> 1, pages |-> 1]]
<1>1. Become(c, j) /\ job[c].pc = "record"
  BY DEF Record, At
<1>2. Running(job[c])
  BY <1>1 DEF TypeInv, NoJob
<1>3. Running(j) /\ j.pc = "store"
  BY <1>2 DEF Running, Fields
<1> HIDE DEF j
<1> QED
  BY <1>1, <1>2, <1>3, BecomeIs

LEMMA FeedChangesIs ==
    ASSUME TypeInv, FeedChanges
    PROVE  /\ DOMAIN job' = Command
           /\ \A c \in Command :
                \/ job[c] = NoJob /\ job'[c] = NoJob
                \/ /\ Running(job[c]) /\ Carries(job[c], job'[c])
                   /\ job'[c].pc = job[c].pc /\ job'[c].url = job[c].url
<1>1. job' = [c \in Command |-> IF Active(c) THEN [job[c] EXCEPT !.steady = FALSE] ELSE job[c]]
  BY DEF FeedChanges
<1>2. ASSUME NEW c \in Command
      PROVE  \/ job[c] = NoJob /\ job'[c] = NoJob
             \/ /\ Running(job[c]) /\ Carries(job[c], job'[c])
                /\ job'[c].pc = job[c].pc /\ job'[c].url = job[c].url
  <2>1. CASE job[c] = NoJob
    BY <1>1, <2>1 DEF Active, NoJob
  <2>2. CASE Running(job[c])
    BY <1>1, <2>2 DEF Active, Running, BeforeStore, Fields, Carries
  <2> QED
    BY <2>1, <2>2 DEF TypeInv
<1> QED
  BY <1>1, <1>2

(***************************************************************************)
(* Types.                                                                  *)
(***************************************************************************)

\* The steps, one by one, as the proofs take them.
LEMMA NextIs ==
    ASSUME Next
    PROVE  \/ \E c \in Command :
                \/ Start(c) \/ Request(c) \/ Redirected(c) \/ Body(c) \/ Parse(c) \/ Record(c)
                \/ InsertMatter(c) \/ InsertAttachment(c)
                \/ Fails(c)
           \/ RecordReview \/ Capture \/ EditSource \/ FeedChanges \/ Tick
  BY DEF Next, Step, NotModified, RequestFails, OverBudget, Done, Crash

\* The steps that change neither commands, reviews nor what is recorded.
Aside ==
    \/ \E c \in Command : InsertMatter(c) \/ InsertAttachment(c)
    \/ Capture \/ EditSource \/ Tick

LEMMA AsideIs ==
    ASSUME TypeInv, Aside
    PROVE  /\ job' = job /\ reviews' = reviews /\ fetched' = fetched
           /\ recorded' = recorded /\ raced' = raced
           /\ source' \in Settings /\ clock' \in Nat
  BY DEF TypeInv, Aside, InsertMatter, InsertAttachment, Capture, EditSource, Tick,
         world, stored, history

LEMMA Types == ASSUME TypeInv, [Next]_vars PROVE TypeInv'
<1> USE SettingsAssumption, LimitAssumption
<1>1. ASSUME NEW c \in Command, Start(c) PROVE TypeInv'
  BY <1>1, StartIs DEF TypeInv, Others, Start, world, stored
<1>2. ASSUME NEW c \in Command, NEW k \in BeforeStore, Carries(job[c], job'[c]),
             Running(job[c]), Others(c), job'[c].pc = k, UNCHANGED <<world, reviews, fetched, recorded>>
      PROVE  TypeInv'
  <2>1. Running(job'[c])
    BY <1>2 DEF Running, Carries, BeforeStore
  <2> QED
    BY <1>2, <2>1 DEF TypeInv, Others, world
<1>3. ASSUME NEW c \in Command, Request(c) PROVE TypeInv'
  <2>1. Running(job[c])
    BY <1>3, RequestIs DEF TypeInv, NoJob
  <2> QED
    BY <1>2, <1>3, <2>1, RequestIs DEF Request, BeforeStore, stored, history
<1>4. ASSUME NEW c \in Command, Redirected(c) PROVE TypeInv'
  <2>1. Running(job[c])
    BY <1>4, RedirectedIs DEF TypeInv, NoJob
  <2> QED
    BY <1>2, <1>4, <2>1, RedirectedIs DEF Redirected, BeforeStore, stored, history
<1>5. ASSUME NEW c \in Command, Body(c) PROVE TypeInv'
  <2>1. Running(job[c])
    BY <1>5, BodyIs DEF TypeInv, NoJob
  <2> QED
    BY <1>2, <1>5, <2>1, BodyIs DEF Body, BeforeStore, stored, history
<1>6. ASSUME NEW c \in Command, Parse(c) PROVE TypeInv'
  <2>1. Running(job[c])
    BY <1>6, ParseIs DEF TypeInv, NoJob
  <2>2. job'[c].pc \in BeforeStore
    BY <1>6, ParseIs DEF BeforeStore
  <2> QED
    BY <1>2, <1>6, <2>1, <2>2, ParseIs DEF Parse, stored, history
<1>7. ASSUME NEW c \in Command, Record(c) PROVE TypeInv'
  <2>1. job[c].started \in Nat
    BY <1>7, RecordIs DEF Running
  <2> QED
    BY <1>7, <2>1, RecordIs DEF Record, RecordedTime, TypeInv, Others, world
<1>8. ASSUME NEW c \in Command, Fails(c) PROVE TypeInv'
  BY <1>8, FailsIs DEF Fails, TypeInv, Others, world, stored, history
<1>9. ASSUME RecordReview PROVE TypeInv'
  <2>1. PICK expires \in Expiries :
          reviews' = Append(reviews, [settings |-> source, hosts |-> {source.host}, expires |-> expires])
    BY <1>9 DEF RecordReview
  <2>2. [settings |-> source, hosts |-> {source.host}, expires |-> expires] \in Review
    BY <2>1, ExpiriesAssumption DEF TypeInv, Review
  <2> QED
    BY <1>9, <2>1, <2>2 DEF RecordReview, TypeInv, world, history
<1>10. ASSUME FeedChanges PROVE TypeInv'
  <2>1. \A c \in Command : job'[c] = NoJob \/ Running(job'[c])
    BY <1>10, FeedChangesIs DEF Running, Carries
  <2> QED
    BY <1>10, <2>1, FeedChangesIs DEF FeedChanges, TypeInv, stored, history
<1>11. ASSUME Aside PROVE TypeInv'
  BY <1>11, AsideIs DEF TypeInv
<1>12. CASE UNCHANGED vars
  BY <1>12 DEF vars, world, stored, history, TypeInv
<1> QED
  BY <1>1, <1>3, <1>4, <1>5, <1>6, <1>7, <1>8, <1>9, <1>10, <1>11, <1>12, NextIs DEF Aside

LEMMA InitTypes == Init => TypeInv
  BY SettingsAssumption DEF Init, TypeInv
(***************************************************************************)
(* Requests go to reviewed hosts.                                          *)
(***************************************************************************)

\* A human recorded a review for what the command was given.
Sanctioned(j) ==
    \E r \in Range(reviews) :
        /\ r.settings = j.settings /\ j.hosts \subseteq r.hosts
        /\ j.started <= r.expires.text
        /\ SortsInTime(r.expires) => j.started <= r.expires.instant

\* A command on its way has been sanctioned, and asks only hosts it was given.
SanctionInv ==
    \A c \in Command :
        /\ job[c].pc \in BeforeStore => Sanctioned(job[c])
        /\ job[c].pc = "waiting" => job[c].url.host \in job[c].hosts

LEMMA ReviewsGrow ==
    ASSUME TypeInv, [Next]_vars
    PROVE  Range(reviews) \subseteq Range(reviews')
<1>1. CASE UNCHANGED reviews
  BY <1>1
<1>2. ASSUME RecordReview PROVE Range(reviews) \subseteq Range(reviews')
  <2>1. PICK r \in [settings : {source}, hosts : {{source.host}}, expires : Expiries] :
          reviews' = Append(reviews, r)
    BY <1>2 DEF RecordReview
  <2> QED
    BY <2>1 DEF TypeInv, Range
<1>3. ASSUME Next, ~RecordReview PROVE UNCHANGED reviews
  BY <1>3 DEF Next, Start, Step, Request, Redirected, NotModified, Body, RequestFails, Parse,
     OverBudget, Record, InsertMatter, InsertAttachment, Done, Crash, Fails, Capture, EditSource,
     FeedChanges, Tick, stored
<1> QED
  BY <1>1, <1>2, <1>3 DEF vars, stored

\* What was sanctioned stays so for a command that carries it on.
LEMMA SanctionCarries ==
    ASSUME TypeInv, [Next]_vars, NEW c \in Command, Sanctioned(job[c]), Carries(job[c], job'[c])
    PROVE  Sanctioned(job[c])'
  BY ReviewsGrow DEF Sanctioned, Carries

LEMMA SanctionKept ==
    ASSUME TypeInv, [Next]_vars, SanctionInv
    PROVE  SanctionInv'
<1> DEFINE Fine(c) == /\ job'[c].pc \in BeforeStore => Sanctioned(job[c])'
                      /\ job'[c].pc = "waiting" => job'[c].url.host \in job'[c].hosts
<1>0. SUFFICES ASSUME NEW c \in Command PROVE Fine(c)
  BY DEF SanctionInv
<1>1. ASSUME job'[c] = NoJob PROVE Fine(c)
  BY <1>1 DEF NoJob, BeforeStore
<1>2. ASSUME job'[c] = job[c] PROVE Fine(c)
  <2>1. job'[c].pc = job[c].pc /\ job'[c].url = job[c].url /\ job'[c].hosts = job[c].hosts
    BY <1>2
  <2>2. ASSUME job[c].pc \in BeforeStore PROVE Sanctioned(job[c])'
    BY <1>2, <2>2, ReviewsGrow DEF Sanctioned, SanctionInv
  <2> QED
    BY <2>1, <2>2 DEF SanctionInv
<1>3. ASSUME Carries(job[c], job'[c]), job[c].pc \in BeforeStore,
             job'[c].pc = "waiting" => job'[c].url.host \in job'[c].hosts
      PROVE  Fine(c)
  BY <1>3, SanctionCarries DEF SanctionInv
<1>4. ASSUME Start(c) PROVE Fine(c)
  <2>1. reviews # <<>> /\ InScope(Last(reviews)) /\ UNCHANGED reviews
    BY <1>4 DEF Start, stored
  <2>2. Last(reviews) \in Range(reviews)
    BY <2>1 DEF TypeInv, Last, Range
  <2>3. /\ clock \in Nat
        /\ Last(reviews).expires.text \in Nat /\ Last(reviews).expires.instant \in Nat
    <3>1. clock \in Nat /\ Last(reviews) \in Review
      BY <2>2 DEF TypeInv, Range
    <3> QED
      BY <3>1 DEF Review
  <2>4. /\ clock <= Last(reviews).expires.text
        /\ SortsInTime(Last(reviews).expires) => clock <= Last(reviews).expires.instant
    BY <2>1, <2>3 DEF InScope, SortsInTime
  <2>5. Last(reviews).settings = source
    BY <2>1 DEF InScope
  <2>6. Sanctioned(job[c])'
    BY <1>4, <2>1, <2>2, <2>4, <2>5, StartIs DEF Sanctioned
  <2> QED
    BY <1>4, <2>6, StartIs
<1>5. ASSUME Record(c) PROVE Fine(c)
  BY <1>5, RecordIs DEF BeforeStore
<1>6. ASSUME FeedChanges PROVE Fine(c)
  <2>1. CASE job'[c] = NoJob
    BY <1>1, <2>1
  <2>2. CASE /\ Running(job[c]) /\ Carries(job[c], job'[c])
             /\ job'[c].pc = job[c].pc /\ job'[c].url = job[c].url
    <3>1. job[c].pc = "waiting" => job'[c].url.host \in job'[c].hosts
      BY <2>2 DEF SanctionInv, Carries
    <3> QED
      BY <1>3, <2>2, <3>1
  <2> QED
    BY <1>6, <2>1, <2>2, FeedChangesIs
<1>7. ASSUME NEW o \in Command, Others(o), o # c PROVE Fine(c)
  BY <1>2, <1>7 DEF Others
<1>8. ASSUME Request(c) PROVE Fine(c)
  BY <1>3, <1>8, RequestIs DEF BeforeStore
<1>9. ASSUME Redirected(c) PROVE Fine(c)
  BY <1>3, <1>9, RedirectedIs DEF BeforeStore
<1>10. ASSUME Body(c) PROVE Fine(c)
  BY <1>3, <1>10, BodyIs DEF BeforeStore
<1>11. ASSUME Parse(c) PROVE Fine(c)
  BY <1>3, <1>11, ParseIs DEF BeforeStore
<1>12. ASSUME Fails(c) PROVE Fine(c)
  BY <1>1, <1>12, FailsIs
<1>13. ASSUME job' = job PROVE Fine(c)
  BY <1>2, <1>13
<1> HIDE DEF Fine
<1>14. ASSUME NEW o \in Command, \/ Start(o) \/ Request(o) \/ Redirected(o) \/ Body(o)
                                 \/ Parse(o) \/ Record(o) \/ Fails(o)
       PROVE  Fine(c)
  <2>1. Others(o)
    BY <1>14, StartIs, RequestIs, RedirectedIs, BodyIs, ParseIs, RecordIs, FailsIs
  <2> QED
    BY <1>4, <1>5, <1>7, <1>8, <1>9, <1>10, <1>11, <1>12, <1>14, <2>1
<1>15. CASE Next
  <2>1. ASSUME Aside \/ RecordReview PROVE job' = job
    BY <2>1, AsideIs DEF RecordReview
  <2> QED
    BY <1>6, <1>13, <1>14, <1>15, <2>1, NextIs DEF Aside
<1>16. CASE UNCHANGED vars
  BY <1>13, <1>16 DEF vars
<1> QED
  BY <1>15, <1>16

\* Every request, after any number of redirects, goes to the host of a review
\* recorded for the settings of its command and not expired when it began,
\* whatever is edited or reviewed meanwhile (verify_source_review, allows_host
\* and follow_redirect).
THEOREM RequestsAreReviewed == Spec => []FetchesAreReviewed
<1>1. Init => TypeInv /\ SanctionInv
  BY InitTypes DEF Init, NoJob, SanctionInv, BeforeStore
<1>2. TypeInv /\ SanctionInv /\ [Next]_vars => (TypeInv /\ SanctionInv)'
  BY Types, SanctionKept
<1>3. SanctionInv => FetchesAreReviewed
  BY DEF SanctionInv, Sanctioned, FetchesAreReviewed, At, BeforeStore
<1> QED
  BY <1>1, <1>2, <1>3, PTL DEF Spec

(***************************************************************************)
(* The interval.                                                           *)
(***************************************************************************)

\* While no two commands were past the gate together, there is at most one
\* command, the newest record of a fetch is the one stored, and the command
\* that runs keeps its distance from it.
PaceInv ==
    \/ raced
    \/ /\ \A c, o \in Command : Active(c) /\ Active(o) => c = o
       /\ \A t \in recorded : fetched # Never /\ t <= fetched
       /\ \A c \in Command :
            job[c].pc \in BeforeStore =>
                fetched = Never \/ fetched + job[c].settings.interval <= job[c].started

LEMMA PaceKept ==
    ASSUME TypeInv, [Next]_vars, PaceInv, ~raced'
    PROVE  PaceInv'
<1> USE SettingsAssumption
\* A step that carries a command on, or ends it, changes neither distance nor count.
<1>1. ASSUME UNCHANGED <<fetched, recorded, raced>>,
             \A o \in Command : Active(o)' => Active(o),
             \A o \in Command : job'[o].pc \in BeforeStore =>
                /\ job[o].pc \in BeforeStore
                /\ job'[o].settings = job[o].settings /\ job'[o].started = job[o].started
      PROVE  PaceInv'
  BY <1>1 DEF PaceInv
<1>2. ASSUME NEW c \in Command, Start(c) PROVE PaceInv'
  <2>1. ~raced /\ \A o \in Command \ {c} : ~Active(o)
    BY <1>2 DEF Start
  <2>2. \A o \in Command : Active(o)' => o = c
    BY <1>2, <2>1, StartIs DEF Others, Active
  <2>3. fetched = Never \/ fetched + source.interval <= clock
    BY <1>2 DEF Start, Allowed, TypeInv
  <2>4. ASSUME NEW o \in Command, job'[o].pc \in BeforeStore
        PROVE  fetched = Never \/ fetched + job'[o].settings.interval <= job'[o].started
    <3>1. o = c
      BY <2>2, <2>4 DEF Active, BeforeStore
    <3> QED
      BY <1>2, <2>3, <3>1, StartIs
  <2>5. UNCHANGED <<fetched, recorded>>
    BY <1>2 DEF Start, stored
  <2> QED
    BY <2>1, <2>2, <2>4, <2>5 DEF PaceInv
<1>3. ASSUME NEW c \in Command, Others(c), job[c].pc \in BeforeStore,
             Carries(job[c], job'[c]), UNCHANGED <<fetched, recorded, raced>>
      PROVE  PaceInv'
  BY <1>1, <1>3 DEF Others, Carries, Active, BeforeStore
<1>4. ASSUME NEW c \in Command, Request(c) PROVE PaceInv'
  BY <1>3, <1>4, RequestIs DEF Request, stored, history, BeforeStore
<1>5. ASSUME NEW c \in Command, Redirected(c) PROVE PaceInv'
  BY <1>3, <1>5, RedirectedIs DEF Redirected, stored, history, BeforeStore
<1>6. ASSUME NEW c \in Command, Body(c) PROVE PaceInv'
  BY <1>3, <1>6, BodyIs DEF Body, history, BeforeStore
<1>7. ASSUME NEW c \in Command, Parse(c) PROVE PaceInv'
  BY <1>3, <1>7, ParseIs DEF Parse, stored, history, BeforeStore
<1>8. ASSUME NEW c \in Command, Fails(c) PROVE PaceInv'
  <2>1. UNCHANGED <<fetched, recorded, raced>>
    BY <1>8 DEF Fails, stored, history
  <2>2. ASSUME NEW o \in Command
        PROVE  job'[o] = job[o] \/ job'[o] = NoJob
    BY <1>8, FailsIs DEF Others
  <2> QED
    BY <1>1, <2>1, <2>2 DEF Active, NoJob, BeforeStore
<1>9. ASSUME NEW c \in Command, Record(c) PROVE PaceInv'
  <2>1. ~raced /\ Active(c)
    BY <1>9, RecordIs DEF Record, Active
  <2>2. \A o \in Command : Active(o) => o = c
    BY <2>1 DEF PaceInv
  <2>3. \A o \in Command : Active(o)' => o = c
    BY <1>9, <2>2, RecordIs DEF Others, Active
  <2>4. \A o \in Command : job'[o].pc \notin BeforeStore
    BY <1>9, <2>3, RecordIs DEF Active, BeforeStore
  <2>5. fetched' = job[c].started /\ job[c].started \in Nat /\ job[c].settings.interval \in Nat
    BY <1>9, RecordIs DEF Record, RecordedTime, Running
  <2>6. fetched = Never \/ fetched + job[c].settings.interval <= job[c].started
    BY <1>9, <2>1, RecordIs DEF PaceInv, BeforeStore
  <2>7. recorded' = recorded \cup {job[c].started}
    BY <1>9 DEF Record
  <2>8. \A t \in recorded : fetched # Never /\ t <= fetched
    BY <2>1 DEF PaceInv
  <2>9. ASSUME NEW t \in recorded' PROVE fetched' # Never /\ t <= fetched'
    <3>1. fetched' # Never
      BY <2>5 DEF Never
    <3>2. CASE t \in recorded
      <4>1. fetched # Never /\ t <= fetched
        BY <2>8, <3>2
      <4>2. t \in Nat /\ fetched \in Nat
        BY <3>2, <4>1 DEF TypeInv
      <4> QED
        BY <2>5, <2>6, <3>1, <4>1, <4>2
    <3>3. CASE t = job[c].started
      BY <2>5, <3>1, <3>3
    <3> QED
      BY <2>7, <2>9, <3>2, <3>3
  <2> QED
    BY <2>3, <2>4, <2>9 DEF PaceInv
<1>10. ASSUME FeedChanges PROVE PaceInv'
  <2>1. UNCHANGED <<fetched, recorded, raced>>
    BY <1>10 DEF FeedChanges, stored, history
  <2>2. ASSUME NEW o \in Command
        PROVE  /\ job'[o].pc = job[o].pc
               /\ job'[o].pc \in BeforeStore =>
                    job'[o].settings = job[o].settings /\ job'[o].started = job[o].started
    BY <1>10, FeedChangesIs DEF Carries, NoJob, BeforeStore
  <2> QED
    BY <1>1, <2>1, <2>2 DEF Active
<1>11. ASSUME UNCHANGED <<job, fetched, recorded, raced>> PROVE PaceInv'
  BY <1>1, <1>11 DEF Active
<1>12. ASSUME Aside \/ RecordReview PROVE PaceInv'
  BY <1>11, <1>12, AsideIs DEF RecordReview, history
<1>13. CASE UNCHANGED vars
  BY <1>11, <1>13 DEF vars, stored, history
<1> QED
  BY <1>2, <1>4, <1>5, <1>6, <1>7, <1>8, <1>9, <1>10, <1>12, <1>13, NextIs DEF Aside

\* Of two ingests of a source the later one, until it stores, began an
\* interval after the earlier recorded its fetch, unless two commands have been past the gate
\* at once (source_fetch_allowed reads, record_source_fetch writes at the end).
THEOREM FetchesArePaced == Spec => []PacedUnlessRaced
<1>1. Init => TypeInv /\ PaceInv
  BY InitTypes DEF Init, NoJob, PaceInv, BeforeStore, Active
<1>2. TypeInv /\ PaceInv /\ [Next]_vars => (TypeInv /\ PaceInv)'
  BY Types, PaceKept DEF PaceInv
<1>3. ASSUME TypeInv, PaceInv PROVE PacedUnlessRaced
  <2>1. SUFFICES ASSUME ~raced, NEW c \in Command, Active(c), ~At(c, "store"), NEW t \in recorded
                 PROVE  t + job[c].settings.interval <= job[c].started
    BY DEF PacedUnlessRaced
  <2>2. Running(job[c]) /\ job[c].pc \in BeforeStore
    BY <1>3, <2>1 DEF TypeInv, Active, At, Running, NoJob
  <2>3. fetched # Never /\ t <= fetched /\ fetched + job[c].settings.interval <= job[c].started
    BY <1>3, <2>1, <2>2 DEF PaceInv
  <2>4. job[c].settings.interval \in Nat /\ job[c].started \in Nat /\ t \in Nat /\ fetched \in Nat
    BY <1>3, <2>1, <2>2, <2>3, SettingsAssumption DEF Running, TypeInv
  <2> QED
    BY <2>3, <2>4
<1> QED
  BY <1>1, <1>2, <1>3, PTL DEF Spec
(***************************************************************************)
(* The pages of a steady feed.                                             *)
(***************************************************************************)

\* Every nonempty set of naturals has a least element: induction over numbers
\* as the search for a smallest counterexample.
LEMMA LeastOfNat ==
    ASSUME NEW A \in SUBSET Nat, A # {}
    PROVE  \E m \in A : \A k \in A : m <= k
<1> DEFINE U == {0..i : i \in A}
           R == StrictSubsetOrdering(Nat)
           F == FiniteSubsetsOf(Nat)
<1>1. IsWellFoundedOn(R, F)
  BY FS_StrictSubsetOrderingWellFounded
<1>2. U \subseteq F /\ U # {}
  <2>1. \A i \in A : 0..i \in SUBSET Nat /\ IsFiniteSet(0..i)
    BY FS_Interval
  <2> QED
    BY <2>1 DEF FiniteSubsetsOf
<1>3. \E x \in U : \A y \in U : ~(<<y, x>> \in R)
  <2> HIDE DEF U, R, F
  <2> QED
    BY <1>1, <1>2, WFMin
<1>4. PICK m \in A : \A k \in A : ~(<<0..k, 0..m>> \in R)
  <2> HIDE DEF R
  <2> QED
    BY <1>3
<1>5. ASSUME NEW k \in A, k < m PROVE FALSE
  <2>1. 0..k \subseteq 0..m /\ m \in 0..m /\ m \notin 0..k /\ 0..k \in SUBSET Nat /\ 0..m \in SUBSET Nat
    BY <1>5
  <2>2. <<0..k, 0..m>> \in R
    BY <2>1 DEF StrictSubsetOrdering
  <2> QED
    BY <1>4, <2>2
<1> QED
  BY <1>5

\* The memory of the pages, up to the n-th event of the page held.
Begun(j) == [events |-> j.events, matters |-> j.matters, found |-> j.found, stopped |-> ""]
Takes(f, j, n) == f = [i \in 0..n |-> IF i = 0 THEN Begun(j) ELSE TakeEvent(f[i-1], j.body[i])]

LEMMA TakesExists ==
    ASSUME NEW j, NEW n \in Nat
    PROVE  \E f : Takes(f, j, n)
<1> DEFINE A == {k \in Nat : ~ \E f : Takes(f, j, k)}
<1>1. SUFFICES ASSUME A # {} PROVE FALSE
  OBVIOUS
<1>2. PICK m \in A : \A k \in A : m <= k
  BY <1>1, LeastOfNat
<1>3. m # 0
  <2>1. Takes([i \in 0..0 |-> Begun(j)], j, 0)
    BY DEF Takes
  <2> QED
    BY <2>1
<1>4. PICK g : Takes(g, j, m - 1)
  <2>1. m - 1 \in Nat /\ m - 1 \notin A
    BY <1>2, <1>3
  <2> QED
    BY <2>1
<1> DEFINE Step1(h, i) == IF i = 0 THEN Begun(j) ELSE TakeEvent(h[i-1], j.body[i])
           f == [i \in 0..m |-> IF i < m THEN g[i] ELSE Step1(g, m)]
<1>5. ASSUME NEW i \in 0..m
      PROVE  f[i] = Step1(f, i)
  <2>1. CASE i < m
    <3>1. f[i] = g[i] /\ (i # 0 => f[i-1] = g[i-1])
      BY <2>1
    <3>2. i \in 0..(m - 1)
      BY <2>1
    <3>3. \A k \in 0..(m - 1) : g[k] = Step1(g, k)
      BY <1>4 DEF Takes
    <3> HIDE DEF f
    <3> QED
      BY <3>1, <3>2, <3>3
  <2>2. CASE i = m
    <3>1. f[i-1] = g[i-1] /\ f[i] = Step1(g, m)
      BY <1>3, <2>2
    <3> HIDE DEF f
    <3> QED
      BY <2>2, <3>1
  <2> QED
    BY <2>1, <2>2
<1>6. f = [i \in 0..m |-> f[i]]
  OBVIOUS
<1> HIDE DEF f
<1>7. Takes(f, j, m)
  BY <1>5, <1>6 DEF Takes
<1> QED
  BY <1>7

LEMMA TakenIs ==
    ASSUME NEW j, Len(j.body) \in Nat
    PROVE  \E f : Takes(f, j, Len(j.body)) /\ Taken(j) = f[Len(j.body)]
<1> DEFINE g == CHOOSE f : f = [i \in 0..Len(j.body) |->
                    IF i = 0
                    THEN [events |-> j.events, matters |-> j.matters, found |-> j.found, stopped |-> ""]
                    ELSE TakeEvent(f[i-1], j.body[i])]
<1>1. Taken(j) = g[Len(j.body)]
  BY DEF Taken
<1>2. \E f : f = [i \in 0..Len(j.body) |->
                    IF i = 0
                    THEN [events |-> j.events, matters |-> j.matters, found |-> j.found, stopped |-> ""]
                    ELSE TakeEvent(f[i-1], j.body[i])]
  BY TakesExists DEF Takes, Begun
<1>3. Takes(g, j, Len(j.body))
  BY <1>2 DEF Takes, Begun
<1> QED
  BY <1>1, <1>3

\* A feed, and its first n events.
IsFeed(f) == f \in Seq(Event) /\ IsInjective(f)
Newest(s, f, n) ==
    /\ n \in Nat /\ n <= Len(f)
    /\ s \in Seq(Event) /\ Len(s) = n /\ \A i \in 1..n : s[i] = f[i]

\* The memory of the pages after some events of the page.
Read(t, f, n) ==
    /\ t.stopped \in {"", "max events", "max matters"}
    /\ t.stopped = "" => Newest(t.events, f, n) /\ n < MaxEvents
    /\ t.stopped = "max events" => Newest(t.events, f, MaxEvents)
    /\ t.stopped = "max matters" => /\ \E m : Newest(t.events, f, m)
                                    /\ Cardinality(t.matters) >= MaxMatters

LEMMA TakeEventReads ==
    ASSUME NEW f, IsFeed(f), NEW n \in Nat, n + 1 <= Len(f), NEW t, Read(t, f, n)
    PROVE  Read(TakeEvent(t, f[n + 1]), f, n + 1)
<1> DEFINE e == f[n + 1]
           u == TakeEvent(t, e)
<1>0. Len(f) \in Nat /\ DOMAIN f = 1..Len(f) /\ n + 1 \in DOMAIN f /\ e \in Event /\ MaxEvents \in Nat
  BY LimitAssumption DEF IsFeed
<1>1. CASE t.stopped # ""
  <2>1. u = t
    BY <1>1 DEF TakeEvent
  <2> QED
    BY <1>1, <2>1 DEF Read
<1>2. CASE t.stopped = ""
  <2>1. Newest(t.events, f, n) /\ n < MaxEvents
    BY <1>2 DEF Read
  <2>2. e \notin Range(t.events)
    <3>1. SUFFICES ASSUME e \in Range(t.events) PROVE FALSE
      OBVIOUS
    <3>2. PICK i \in DOMAIN t.events : e = t.events[i]
      BY <3>1 DEF Range
    <3>3. i \in 1..n /\ f[i] = f[n + 1]
      BY <2>1, <3>2 DEF Newest
    <3>4. i \in DOMAIN f /\ i # n + 1
      BY <1>0, <3>3
    <3> QED
      BY <1>0, <3>3, <3>4 DEF IsFeed, IsInjective
  <2> DEFINE events == Append(t.events, e)
             found == t.matters \cup MattersOf(e)
             why == IF Len(events) >= MaxEvents THEN "max events"
                    ELSE IF Cardinality(found) >= MaxMatters THEN "max matters" ELSE ""
  <2>3. u.events = events /\ u.matters = found /\ u.stopped = why
    BY <1>2, <2>2 DEF TakeEvent
  <2>4. Newest(events, f, n + 1)
    <3>1. t.events \in Seq(Event) /\ Len(t.events) = n /\ \A i \in 1..n : t.events[i] = f[i]
      BY <2>1 DEF Newest
    <3>2. /\ events \in Seq(Event) /\ Len(events) = n + 1 /\ events[n + 1] = e
          /\ \A i \in 1..n : events[i] = t.events[i]
      BY <1>0, <3>1, AppendProperties
    <3>3. ASSUME NEW i \in 1..(n + 1) PROVE events[i] = f[i]
      <4>1. i = n + 1 \/ i \in 1..n
        OBVIOUS
      <4> HIDE DEF events
      <4> QED
        BY <3>1, <3>2, <4>1
    <3> HIDE DEF events
    <3> QED
      BY <3>2, <3>3 DEF Newest
  <2>5. Len(events) = n + 1
    BY <2>4 DEF Newest
  <2> HIDE DEF u, events, found
  <2>6. why = "max events" => MaxEvents = n + 1
    BY <1>0, <2>1, <2>5
  <2>7. why = "max matters" => Cardinality(found) >= MaxMatters
    OBVIOUS
  <2>8. why = "" => n + 1 < MaxEvents
    BY <1>0, <2>5
  <2>9. why \in {"", "max events", "max matters"}
    OBVIOUS
  <2> HIDE DEF why
  <2>10. Read(u, f, n + 1)
    BY <2>3, <2>4, <2>6, <2>7, <2>8, <2>9 DEF Read
  <2> QED
    BY <2>10 DEF u
<1> QED
  BY <1>1, <1>2

\* What is left of the feed from an offset on, and what of it a page holds.
Least(a, b) == IF a <= b THEN a ELSE b
Held(j, f) == IF j.offset >= Len(f) THEN 0 ELSE Least(j.limits.size, Len(f) - j.offset)

PageFields == {"pc", "limits", "page", "offset", "events", "matters", "found", "body", "stopped", "steady"}

\* A command between pages, with a page, and past the last one.
Paging(j, f) ==
    /\ PageFields \subseteq DOMAIN j
    /\ j.limits.size \in Nat \ {0} /\ j.limits.pages \in Nat \ {0}
    /\ j.page \in Nat /\ j.page < j.limits.pages /\ j.offset = j.page * j.limits.size
    /\ Newest(j.events, f, Least(j.offset, Len(f))) /\ Len(j.events) < MaxEvents
Holding(j, f) ==
    /\ j.body \in Seq(Event) /\ Len(j.body) = Held(j, f)
    /\ \A i \in 1..Held(j, f) : j.body[i] = f[j.offset + i]
Finished(j, f) ==
    \E n : /\ Newest(j.events, f, n)
           /\ j.stopped \in {"max events", "max pages", "non-progressing page", "max matters"}
           /\ j.stopped = "max events" => n = MaxEvents
           /\ j.stopped = "max pages" => n = Least(j.limits.pages * j.limits.size, Len(f))
           /\ j.stopped = "non-progressing page" => n = Len(f)
           /\ j.stopped = "max matters" => Cardinality(j.matters) >= MaxMatters
           /\ j.limits.size \in Nat /\ j.limits.pages \in Nat

\* Numbers a page is reckoned with.
LEMMA OffsetIs ==
    ASSUME NEW j, NEW f, IsFeed(f), Paging(j, f)
    PROVE  /\ j.offset \in Nat /\ Len(f) \in Nat /\ Held(j, f) \in Nat
           /\ (j.page + 1) * j.limits.size = j.offset + j.limits.size
           /\ Held(j, f) = 0 => Least(j.offset, Len(f)) = Len(f)
           /\ Held(j, f) # 0 => Least(j.offset, Len(f)) = j.offset
           /\ Least(j.offset, Len(f)) + Held(j, f) = Least(j.offset + j.limits.size, Len(f))
<1>1. j.page \in Nat /\ j.limits.size \in Nat \ {0} /\ j.offset = j.page * j.limits.size /\ Len(f) \in Nat
  BY DEF Paging, IsFeed
<1>2. \A p, s \in Nat : p * s \in Nat /\ (p + 1) * s = p * s + s
  OBVIOUS
<1>3. j.offset \in Nat /\ (j.page + 1) * j.limits.size = j.offset + j.limits.size
  BY <1>1, <1>2
<1> DEFINE o == j.offset
           s == j.limits.size
           l == Len(f)
<1>4. o \in Nat /\ s \in Nat /\ s # 0 /\ l \in Nat
  BY <1>1, <1>3
<1> HIDE DEF o, s, l
<1>5. Held(j, f) = IF o >= l THEN 0 ELSE IF s <= l - o THEN s ELSE l - o
  BY DEF Held, Least, o, s, l
<1>6. /\ Held(j, f) \in Nat
      /\ Held(j, f) = 0 => Least(o, l) = l
      /\ Held(j, f) # 0 => Least(o, l) = o
      /\ Least(o, l) + Held(j, f) = Least(o + s, l)
  BY <1>4, <1>5 DEF Least
<1> QED
  BY <1>1, <1>3, <1>6 DEF o, s, l

LEMMA TakenReads ==
    ASSUME NEW j, NEW f, IsFeed(f), Paging(j, f), Holding(j, f)
    PROVE  Read(Taken(j), f, Least(j.offset + j.limits.size, Len(f)))
<1> DEFINE k == Least(j.offset, Len(f))
           h == Held(j, f)
<1>1. /\ h \in Nat /\ h = Len(j.body) /\ k \in Nat /\ k + h <= Len(f)
      /\ k + h = Least(j.offset + j.limits.size, Len(f))
      /\ h # 0 => k = j.offset
      /\ Len(f) \in Nat
  <2>1. j.limits.size \in Nat
    BY DEF Paging
  <2> QED
    BY <2>1, OffsetIs DEF Holding, Least
<1>2. \A i \in 1..h : j.body[i] = f[k + i]
  BY <1>1 DEF Holding
<1> HIDE DEF h
<1>3. PICK t : Takes(t, j, h) /\ Taken(j) = t[h]
  BY <1>1, TakenIs
<1>4. \A i \in 0..h : t[i] = IF i = 0 THEN Begun(j) ELSE TakeEvent(t[i-1], j.body[i])
  BY <1>3 DEF Takes
<1> DEFINE A == {i \in 0..h : ~Read(t[i], f, k + i)}
<1>5. A = {}
  <2>1. SUFFICES ASSUME A # {} PROVE FALSE
    OBVIOUS
  <2>2. PICK m \in A : \A i \in A : m <= i
    <3>1. A \in SUBSET Nat
      BY <1>1
    <3> HIDE DEF A
    <3> QED
      BY <2>1, <3>1, LeastOfNat
  <2>3. m \in 0..h /\ ~Read(t[m], f, k + m)
    OBVIOUS
  <2>4. CASE m = 0
    <3>1. t[0].events = j.events /\ t[0].stopped = ""
      <4>1. t[0] = Begun(j)
        BY <1>1, <1>4
      <4>2. Begun(j).events = j.events /\ Begun(j).stopped = ""
        BY DEF Begun
      <4> QED
        BY <4>1, <4>2
    <3>2. Newest(j.events, f, k) /\ Len(j.events) < MaxEvents
      BY DEF Paging
    <3>3. k < MaxEvents /\ k + 0 = k
      BY <1>1, <3>2 DEF Newest
    <3> HIDE DEF k
    <3>4. Read(t[0], f, k)
      BY <3>1, <3>2, <3>3 DEF Read
    <3> QED
      BY <2>3, <2>4, <3>3, <3>4
  <2>5. CASE m # 0
    <3>1. PICK n \in 0..h : m = n + 1
      <4>1. m - 1 \in 0..h /\ m = (m - 1) + 1
        BY <1>1, <2>3, <2>5
      <4> QED
        BY <4>1
    <3>2. Read(t[n], f, k + n)
      <4>1. n \notin A
        BY <1>1, <2>2, <3>1
      <4> QED
        BY <4>1
    <3>3. t[m] = TakeEvent(t[n], f[(k + n) + 1])
      <4>1. t[m] = TakeEvent(t[m - 1], j.body[m]) /\ m - 1 = n
        BY <1>1, <1>4, <2>3, <2>5, <3>1
      <4>2. j.body[m] = f[k + m]
        BY <1>2, <2>3, <2>5
      <4>3. k + m = (k + n) + 1
        BY <1>1, <3>1
      <4> QED
        BY <4>1, <4>2, <4>3
    <3> DEFINE l == Len(f)
    <3>a. k \in Nat /\ h \in Nat /\ l \in Nat /\ k + h <= l
      BY <1>1
    <3>b. n \in Nat /\ m = n + 1 /\ m <= h
      BY <1>1, <2>3, <3>1
    <3> HIDE DEF k, l
    <3>c. k + n \in Nat /\ (k + n) + 1 <= l /\ (k + n) + 1 = k + m
      BY <3>a, <3>b
    <3>4. k + n \in Nat /\ (k + n) + 1 <= Len(f) /\ (k + n) + 1 = k + m
      BY <3>c DEF l
    <3> DEFINE q == k + n
    <3>5. q \in Nat /\ q + 1 <= Len(f) /\ Read(t[n], f, q)
      BY <3>2, <3>4
    <3> HIDE DEF q
    <3>6. Read(TakeEvent(t[n], f[q + 1]), f, q + 1)
      BY <3>5, TakeEventReads
    <3> QED
      BY <2>3, <3>3, <3>4, <3>6 DEF q
  <2> QED
    BY <2>4, <2>5
<1>6. h \in 0..h
  BY <1>1
<1>7. Read(t[h], f, k + h)
  BY <1>5, <1>6
<1> QED
  BY <1>1, <1>3, <1>7
\* A whole page leads to the next one or to the end of the ingest.
LEMMA PageIsTaken ==
    ASSUME NEW j, NEW f, IsFeed(f), Paging(j, f), Holding(j, f)
    PROVE  LET k == TakePage(j)
           IN  /\ k.steady = j.steady
               /\ \/ k.pc = "page" /\ Paging(k, f)
                  \/ k.pc = "record" /\ Finished(k, f)
<1> DEFINE k == TakePage(j)
           r == Taken(j)
           n == Least(j.offset + j.limits.size, Len(f))
           o == Least(j.offset, Len(f))
           why == StopReason(j)
<1>1. Read(r, f, n)
  BY TakenReads
<1>2. /\ j.offset \in Nat /\ Len(f) \in Nat /\ Held(j, f) \in Nat
      /\ (j.page + 1) * j.limits.size = j.offset + j.limits.size
      /\ Held(j, f) = 0 => o = Len(f)
      /\ o + Held(j, f) = n
  BY OffsetIs
<1>3. /\ j.limits.size \in Nat \ {0} /\ j.limits.pages \in Nat \ {0}
      /\ j.page \in Nat /\ j.page < j.limits.pages
      /\ Newest(j.events, f, o)
  BY DEF Paging
<1>4. /\ k.pc = (IF why = "" THEN "page" ELSE "record") /\ k.page = j.page + 1
      /\ k.offset = (IF why = "" THEN j.offset + j.limits.size ELSE j.offset)
      /\ k.events = r.events /\ k.matters = r.matters /\ k.stopped = why
      /\ k.limits = j.limits /\ k.steady = j.steady /\ PageFields \subseteq DOMAIN k
  BY DEF TakePage, NextOffset, Paging, PageFields
<1>5. why = IF r.stopped # "" THEN r.stopped
            ELSE IF r.events = j.events THEN "non-progressing page"
            ELSE IF j.page + 1 = j.limits.pages THEN "max pages" ELSE ""
  BY DEF StopReason
<1> HIDE DEF k, r, n, o, why
<1>6. CASE r.stopped # ""
  <2>1. why = r.stopped /\ k.pc = "record"
    BY <1>4, <1>5, <1>6
  <2>2. PICK m : /\ Newest(r.events, f, m)
                 /\ r.stopped = "max events" => m = MaxEvents
                 /\ r.stopped = "max matters" => Cardinality(r.matters) >= MaxMatters
                 /\ r.stopped \in {"max events", "max matters"}
    BY <1>1, <1>6 DEF Read
  <2>3. Finished(k, f)
    BY <1>3, <1>4, <2>1, <2>2 DEF Finished
  <2> QED
    BY <1>4, <2>1, <2>3 DEF k
<1>7. CASE r.stopped = "" /\ r.events = j.events
  <2>1. why = "non-progressing page" /\ k.pc = "record"
    BY <1>4, <1>5, <1>7
  <2>2. Newest(r.events, f, n) /\ n = o
    BY <1>1, <1>3, <1>7 DEF Read, Newest
  <2>3. n = Len(f)
    BY <1>2, <1>3, <2>2 DEF Newest
  <2>4. Finished(k, f)
    BY <1>3, <1>4, <2>1, <2>2, <2>3 DEF Finished
  <2> QED
    BY <1>4, <2>1, <2>4 DEF k
<1>8. CASE r.stopped = "" /\ r.events # j.events /\ j.page + 1 = j.limits.pages
  <2>1. why = "max pages" /\ k.pc = "record"
    BY <1>4, <1>5, <1>8
  <2>2. Newest(r.events, f, n)
    BY <1>1, <1>8 DEF Read
  <2>3. n = Least(j.limits.pages * j.limits.size, Len(f))
    BY <1>2, <1>8 DEF n
  <2>4. Finished(k, f)
    BY <1>3, <1>4, <2>1, <2>2, <2>3 DEF Finished
  <2> QED
    BY <1>4, <2>1, <2>4 DEF k
<1>9. CASE r.stopped = "" /\ r.events # j.events /\ j.page + 1 # j.limits.pages
  <2>1. why = "" /\ k.pc = "page"
    BY <1>4, <1>5, <1>9
  <2>2. Newest(r.events, f, n) /\ n < MaxEvents
    BY <1>1, <1>9 DEF Read
  <2>3. n = Least(k.offset, Len(f)) /\ k.offset = k.page * k.limits.size
    BY <1>2, <1>4, <2>1 DEF n
  <2>4. k.page \in Nat /\ k.page < k.limits.pages
    <3> DEFINE a == j.page
               b == j.limits.pages
    <3>0. a \in Nat /\ b \in Nat /\ a < b
      BY <1>3
    <3>2. a + 1 # b
      BY <1>9
    <3> HIDE DEF a, b
    <3>3. a + 1 \in Nat /\ a + 1 < b
      BY <3>0, <3>2
    <3>1. j.page + 1 \in Nat /\ j.page + 1 < j.limits.pages
      BY <3>3 DEF a, b
    <3> QED
      BY <1>4, <3>1
  <2>5. Len(k.events) < MaxEvents
    BY <1>4, <2>2 DEF Newest
  <2>6. Paging(k, f)
    BY <1>3, <1>4, <2>2, <2>3, <2>4, <2>5 DEF Paging
  <2> QED
    BY <1>4, <2>1, <2>6 DEF k
<1> QED
  BY <1>6, <1>7, <1>8, <1>9

\* What a page of the feed holds.
LEMMA PageIs ==
    ASSUME IsFeed(feed), NEW j, Paging(j, feed)
    PROVE  LET body == Page(j.offset, j.limits.size)
           IN  /\ body \in Seq(Event) /\ Len(body) = Held(j, feed)
               /\ \A i \in 1..Held(j, feed) : body[i] = feed[j.offset + i]
<1> DEFINE o == j.offset
           s == j.limits.size
           l == Len(feed)
           m == Min({o + s, l})
           body == SubSeq(feed, o + 1, m)
<1>1. o \in Nat /\ s \in Nat \ {0} /\ l \in Nat
  BY OffsetIs DEF Paging
<1>2. Page(o, s) = body
  BY DEF Page
<1>3. Held(j, feed) = IF o >= l THEN 0 ELSE Least(s, l - o)
  BY DEF Held
<1> HIDE DEF o, s, l
<1>4. m = Least(o + s, l)
  <2>1. \E x \in {o + s, l} : \A y \in {o + s, l} : x <= y
    BY <1>1
  <2> QED
    BY <1>1, <2>1 DEF Min, Least
<1> HIDE DEF m
<1>5. m \in Int /\ o + 1 \in Int /\ \A i \in (o + 1)..m : feed[i] \in Event
  <2>1. m \in Nat /\ m <= l
    BY <1>1, <1>4 DEF Least
  <2>2. \A i \in 1..l : feed[i] \in Event
    BY DEF IsFeed, l
  <2> QED
    BY <1>1, <2>1, <2>2
<1>6. /\ body \in Seq(Event)
      /\ Len(body) = IF o + 1 <= m THEN m - (o + 1) + 1 ELSE 0
      /\ \A i \in 1..(m - (o + 1) + 1) : body[i] = feed[(o + 1) + i - 1]
  BY <1>5, SubSeqProperties
<1> HIDE DEF body
<1>7. Len(body) = Held(j, feed)
  BY <1>1, <1>3, <1>4, <1>6 DEF Least
<1>8. ASSUME NEW i \in 1..Held(j, feed) PROVE body[i] = feed[o + i]
  <2>1. i \in 1..(m - (o + 1) + 1) /\ (o + 1) + i - 1 = o + i
    BY <1>1, <1>3, <1>4 DEF Least
  <2> QED
    BY <1>6, <2>1
<1> QED
  BY <1>2, <1>6, <1>7, <1>8 DEF o, s

\* Over a feed that stays, a command's memory is of the feed's newest events.
ReadOk(j, f) ==
    /\ j.pc \in {"page", "waiting", "parse", "record"} => "steady" \in DOMAIN j
    /\ j.pc \in {"page", "waiting", "parse"} /\ j.steady => Paging(j, f)
    /\ j.pc = "parse" /\ j.steady => Holding(j, f)
    /\ j.pc = "record" /\ j.steady => Finished(j, f)

FeedInv ==
    /\ IsFeed(feed)
    /\ \A c \in Command : \E j, f : j = job[c] /\ f = feed /\ ReadOk(j, f)

\* The steps that leave the pages alone keep what is known of them.
LEMMA PagingCarries ==
    ASSUME NEW j, NEW k, NEW f, Paging(j, f), DOMAIN j \subseteq DOMAIN k,
           k.limits = j.limits, k.page = j.page, k.offset = j.offset, k.events = j.events
    PROVE  Paging(k, f)
  BY DEF Paging

LEMMA FeedsChange ==
    ASSUME IsFeed(feed), FeedChanges
    PROVE  IsFeed(feed')
<1>1. feed \in Seq(Event) /\ Len(feed) \in Nat /\ DOMAIN feed = 1..Len(feed)
        /\ \A i, k \in 1..Len(feed) : feed[i] = feed[k] => i = k
  BY DEF IsFeed, IsInjective
<1>2. CASE \E e \in Event \ Range(feed) : feed' = <<e>> \o feed
  <2>1. PICK e \in Event \ Range(feed) : feed' = <<e>> \o feed
    BY <1>2
  <2> DEFINE g == <<e>> \o feed
  <2>2. /\ g \in Seq(Event) /\ Len(g) = Len(feed) + 1 /\ DOMAIN g = 1..(Len(feed) + 1)
        /\ g[1] = e /\ \A i \in 2..(Len(feed) + 1) : g[i] = feed[i - 1]
    BY <1>1
  <2>3. \A i \in 1..Len(feed) : feed[i] # e
    BY <1>1 DEF Range
  <2> HIDE DEF g
  <2>4. ASSUME NEW i \in 1..(Len(feed) + 1), NEW k \in 1..(Len(feed) + 1), g[i] = g[k]
        PROVE  i = k
    <3>1. CASE i = 1 /\ k = 1
      BY <3>1
    <3>2. CASE i = 1 /\ k # 1
      <4>1. k \in 2..(Len(feed) + 1) /\ k - 1 \in 1..Len(feed)
        BY <1>1, <3>2
      <4> QED
        BY <2>2, <2>3, <2>4, <3>2, <4>1
    <3>3. CASE i # 1 /\ k = 1
      <4>1. i \in 2..(Len(feed) + 1) /\ i - 1 \in 1..Len(feed)
        BY <1>1, <3>3
      <4> QED
        BY <2>2, <2>3, <2>4, <3>3, <4>1
    <3>4. CASE i # 1 /\ k # 1
      <4>1. /\ i \in 2..(Len(feed) + 1) /\ i - 1 \in 1..Len(feed)
            /\ k \in 2..(Len(feed) + 1) /\ k - 1 \in 1..Len(feed)
        BY <1>1, <3>4
      <4>2. i - 1 = k - 1
        BY <1>1, <2>2, <2>4, <4>1
      <4> QED
        BY <4>1, <4>2
    <3> QED
      BY <3>1, <3>2, <3>3, <3>4
  <2>5. IsFeed(g)
    BY <2>2, <2>4 DEF IsFeed, IsInjective
  <2> QED
    BY <2>1, <2>5 DEF g
<1>3. CASE feed # <<>> /\ feed' = Tail(feed)
  <2> DEFINE g == Tail(feed)
  <2>1. /\ g \in Seq(Event) /\ Len(feed) > 0 /\ DOMAIN g = 1..(Len(feed) - 1)
        /\ \A i \in 1..(Len(feed) - 1) : g[i] = feed[i + 1]
    BY <1>1, <1>3
  <2> HIDE DEF g
  <2>2. ASSUME NEW i \in 1..(Len(feed) - 1), NEW k \in 1..(Len(feed) - 1), g[i] = g[k]
        PROVE  i = k
    <3>1. i + 1 \in 1..Len(feed) /\ k + 1 \in 1..Len(feed)
      BY <1>1
    <3>2. i + 1 = k + 1
      BY <1>1, <2>1, <2>2, <3>1
    <3> QED
      BY <3>2
  <2>3. IsFeed(g)
    BY <2>1, <2>2 DEF IsFeed, IsInjective
  <2> QED
    BY <1>3, <2>3 DEF g
<1> QED
  BY <1>2, <1>3 DEF FeedChanges
LEMMA StartReads ==
    ASSUME TypeInv, IsFeed(feed), NEW c \in Command, Start(c)
    PROVE  ReadOk(job'[c], feed)
<1>1. PICK limits \in Limits :
        Become(c, [Fresh EXCEPT !.hosts = Last(reviews).hosts, !.limits = limits, !.started = clock])
  BY DEF Start
<1> DEFINE j == [Fresh EXCEPT !.hosts = Last(reviews).hosts, !.limits = limits, !.started = clock]
<1>2. /\ PageFields \subseteq DOMAIN j /\ j.pc = "page" /\ j.limits = limits
      /\ j.page = 0 /\ j.offset = 0 /\ j.events = <<>>
  BY DEF Fresh, PageFields
<1>3. Become(c, j)
  BY <1>1
<1> HIDE DEF j
<1>4. job'[c] = j
  BY <1>3, BecomeIs
<1>5. limits.size \in Nat \ {0} /\ limits.pages \in Nat \ {0}
  BY LimitsAssumption
<1>6. Len(feed) \in Nat /\ MaxEvents \in Nat \ {0}
  BY LimitAssumption DEF IsFeed
<1>7. Newest(<<>>, feed, 0) /\ Least(0, Len(feed)) = 0 /\ Len(<<>>) = 0
  BY <1>6 DEF Newest, Least
<1>8. 0 = 0 * limits.size
  BY <1>5
<1>9. Paging(j, feed)
  BY <1>2, <1>5, <1>6, <1>7, <1>8 DEF Paging
<1> QED
  BY <1>2, <1>4, <1>9 DEF ReadOk, PageFields

\* The steps of one page.
LEMMA PageReads ==
    ASSUME TypeInv, IsFeed(feed), NEW c \in Command, ReadOk(job[c], feed),
           \/ Request(c) \/ Redirected(c) \/ Body(c) \/ Parse(c)
    PROVE  ReadOk(job'[c], feed)
<1>1. PICK j : j = job[c]
  OBVIOUS
<1>2. /\ job[c].pc \in {"page", "waiting", "parse"} /\ Running(job[c]) /\ Others(c)
  <2>1. job[c].pc \in {"page", "waiting", "parse"} /\ Others(c)
    BY RequestIs, RedirectedIs, BodyIs, ParseIs
  <2> QED
    BY <2>1 DEF TypeInv, NoJob
<1>3. /\ "steady" \in DOMAIN j /\ "pc" \in DOMAIN j /\ j.pc \in {"page", "waiting", "parse"}
      /\ j.steady => Paging(j, feed)
      /\ j.steady /\ j.pc = "parse" => Holding(j, feed)
  BY <1>1, <1>2 DEF ReadOk, Running, Fields
<1>4. CASE Request(c)
  <2> DEFINE k == [j EXCEPT !.pc = "waiting", !.url = Api(j.settings.host), !.sent = observed]
  <2>1. Become(c, k)
    BY <1>1, <1>4 DEF Request
  <2>2. /\ DOMAIN k = DOMAIN j /\ k.pc = "waiting" /\ k.steady = j.steady /\ k.limits = j.limits
        /\ k.page = j.page /\ k.offset = j.offset /\ k.events = j.events
    BY <1>3
  <2> HIDE DEF k
  <2>3. j.steady => Paging(k, feed)
    BY <1>3, <2>2, PagingCarries
  <2>4. job'[c] = k
    BY <2>1, BecomeIs
  <2> QED
    BY <1>3, <2>2, <2>3, <2>4 DEF ReadOk
<1>5. CASE Redirected(c)
  <2>1. PICK host \in Host, path \in {"Events", "moved"} :
          Become(c, [job[c] EXCEPT !.url = [host |-> host, path |-> path],
                                   !.redirects = IF @ > MaxRedirects THEN @ ELSE @ + 1, !.sent = FALSE])
    BY <1>5 DEF Redirected
  <2> DEFINE k == [j EXCEPT !.url = [host |-> host, path |-> path],
                            !.redirects = IF @ > MaxRedirects THEN @ ELSE @ + 1, !.sent = FALSE]
  <2>2. Become(c, k)
    BY <1>1, <2>1
  <2>3. /\ DOMAIN k = DOMAIN j /\ k.pc = j.pc /\ k.steady = j.steady /\ k.limits = j.limits
        /\ k.page = j.page /\ k.offset = j.offset /\ k.events = j.events
    BY <1>3
  <2> HIDE DEF k
  <2>4. j.steady => Paging(k, feed)
    BY <1>3, <2>3, PagingCarries
  <2>5. job'[c] = k /\ k.pc = "waiting"
    BY <1>1, <1>5, <2>2, <2>3, BecomeIs, RedirectedIs
  <2> QED
    BY <1>3, <2>3, <2>4, <2>5 DEF ReadOk
<1>6. CASE Body(c)
  <2> DEFINE body == Page(j.offset, j.limits.size)
             k == [j EXCEPT !.pc = "parse", !.body = body, !.downloaded = @ + Len(body),
                            !.url = Api(j.settings.host), !.redirects = 0, !.sent = FALSE]
  <2>1. Become(c, k)
    BY <1>1, <1>6 DEF Body
  <2>2. /\ DOMAIN k = DOMAIN j /\ k.pc = "parse" /\ k.steady = j.steady /\ k.limits = j.limits
        /\ k.page = j.page /\ k.offset = j.offset /\ k.events = j.events
    BY <1>3
  <2>3. "body" \in DOMAIN j => k.body = body
    OBVIOUS
  <2> HIDE DEF k
  <2>4. j.steady => Paging(k, feed)
    BY <1>3, <2>2, PagingCarries
  <2>5. job'[c] = k
    BY <2>1, BecomeIs
  <2>6. ASSUME j.steady PROVE Holding(k, feed)
    <3>1. k.body = body
      BY <1>3, <2>3, <2>6 DEF Paging, PageFields
    <3>2. /\ body \in Seq(Event) /\ Len(body) = Held(j, feed)
          /\ \A i \in 1..Held(j, feed) : body[i] = feed[j.offset + i]
      BY <1>3, <2>6, PageIs
    <3>3. Held(k, feed) = Held(j, feed)
      BY <2>2 DEF Held
    <3> HIDE DEF body
    <3> QED
      BY <2>2, <3>1, <3>2, <3>3 DEF Holding
  <2> QED
    BY <1>3, <2>2, <2>4, <2>5, <2>6 DEF ReadOk
<1>7. CASE Parse(c)
  <2> DEFINE k == TakePage(j)
  <2>1. Become(c, k) /\ j.pc = "parse"
    BY <1>1, <1>7, ParseIs DEF Parse
  <2>2. /\ "steady" \in DOMAIN k /\ k.steady = j.steady /\ k.pc \in {"page", "record"}
    BY <1>3 DEF TakePage
  <2>3. job'[c] = k
    BY <2>1, BecomeIs
  <2>4. ASSUME j.steady PROVE \/ k.pc = "page" /\ Paging(k, feed)
                              \/ k.pc = "record" /\ Finished(k, feed)
    BY <1>3, <2>1, <2>4, PageIsTaken
  <2> HIDE DEF k
  <2> QED
    BY <2>2, <2>3, <2>4 DEF ReadOk
<1> QED
  BY <1>4, <1>5, <1>6, <1>7

LEMMA FeedKept ==
    ASSUME TypeInv, FeedInv, [Next]_vars
    PROVE  FeedInv'
<1>1. /\ IsFeed(feed) /\ \A c \in Command : ReadOk(job[c], feed)
  BY DEF FeedInv
<1>2. ASSUME NEW c \in Command, Others(c), ReadOk(job'[c], feed), feed' = feed
      PROVE  FeedInv'
  <2>1. \A o \in Command : ReadOk(job'[o], feed')
    BY <1>1, <1>2 DEF Others
  <2> QED
    BY <1>1, <1>2, <2>1 DEF FeedInv
<1>3. ASSUME NEW c \in Command, Start(c) PROVE FeedInv'
  <2>1. feed' = feed
    BY <1>3 DEF Start, world
  <2> QED
    BY <1>1, <1>2, <1>3, <2>1, StartIs, StartReads
<1>4. ASSUME NEW c \in Command, \/ Request(c) \/ Redirected(c) \/ Body(c) \/ Parse(c) PROVE FeedInv'
  <2>1. feed' = feed
    BY <1>4 DEF Request, Redirected, Body, Parse, world
  <2>2. Others(c)
    BY <1>4, RequestIs, RedirectedIs, BodyIs, ParseIs
  <2>3. ReadOk(job'[c], feed)
    BY <1>1, <1>4, PageReads
  <2> QED
    BY <1>2, <2>1, <2>2, <2>3
<1>5. ASSUME NEW c \in Command, Record(c) PROVE FeedInv'
  <2>1. feed' = feed
    BY <1>5 DEF Record, world
  <2>2. ReadOk(job'[c], feed)
    BY <1>5, RecordIs DEF ReadOk
  <2> QED
    BY <1>2, <1>5, <2>1, <2>2, RecordIs
<1>6. ASSUME NEW c \in Command, Fails(c) PROVE FeedInv'
  <2>1. feed' = feed
    BY <1>6 DEF Fails, world
  <2>2. ReadOk(job'[c], feed)
    BY <1>6, FailsIs DEF ReadOk, NoJob
  <2> QED
    BY <1>2, <1>6, <2>1, <2>2, FailsIs
<1>7. ASSUME FeedChanges PROVE FeedInv'
  <2>1. IsFeed(feed')
    BY <1>1, <1>7, FeedsChange
  <2>2. job' = [c \in Command |-> IF Active(c) THEN [job[c] EXCEPT !.steady = FALSE] ELSE job[c]]
    BY <1>7 DEF FeedChanges
  <2>3. ASSUME NEW c \in Command PROVE \E j, f : j = job'[c] /\ f = feed' /\ ReadOk(j, f)
    <3>1. PICK j, f : j = job'[c] /\ f = feed'
      OBVIOUS
    <3>2. CASE job[c] = NoJob
      <4>1. j.pc = "idle"
        BY <2>2, <3>1, <3>2 DEF Active, NoJob
      <4> QED
        BY <3>1, <4>1 DEF ReadOk
    <3>3. CASE Running(job[c])
      <4>1. PICK i : i = job[c]
        OBVIOUS
      <4>2. j = [i EXCEPT !.steady = FALSE]
        BY <2>2, <3>1, <3>3, <4>1 DEF Active, Running, BeforeStore
      <4>3. ReadOk(i, feed) /\ "pc" \in DOMAIN i
        BY <1>1, <3>3, <4>1 DEF Running, Fields
      <4>4. DOMAIN j = DOMAIN i /\ j.pc = i.pc /\ ("steady" \in DOMAIN i => j.steady = FALSE)
        BY <4>2, <4>3
      <4>5. j.pc \in {"page", "waiting", "parse", "record"} => "steady" \in DOMAIN j /\ ~j.steady
        BY <4>3, <4>4 DEF ReadOk
      <4>6. ReadOk(j, f)
        BY <4>5 DEF ReadOk
      <4> QED
        BY <3>1, <4>6
    <3> QED
      BY <3>2, <3>3 DEF TypeInv
  <2> QED
    BY <2>1, <2>3 DEF FeedInv
<1>8. ASSUME UNCHANGED <<job, feed>> PROVE FeedInv'
  BY <1>8 DEF FeedInv
<1>9. ASSUME Aside \/ RecordReview PROVE FeedInv'
  <2>1. feed' = feed
    BY <1>9 DEF Aside, InsertMatter, InsertAttachment, Capture, EditSource, Tick, RecordReview, world
  <2>2. job' = job
    BY <1>9, AsideIs DEF RecordReview
  <2> QED
    BY <1>8, <2>1, <2>2
<1>10. CASE UNCHANGED vars
  BY <1>8, <1>10 DEF vars, world
<1> QED
  BY <1>3, <1>4, <1>5, <1>6, <1>7, <1>9, <1>10, NextIs DEF Aside

LEMMA MinOfTwo ==
    ASSUME NEW a \in Nat, NEW b \in Nat
    PROVE  Min({a, b}) = Least(a, b)
<1>1. \E x \in {a, b} : \A y \in {a, b} : x <= y
  OBVIOUS
<1> QED
  BY <1>1 DEF Min, Least

LEMMA NewestIsSubSeq ==
    ASSUME NEW s, NEW f, NEW n, IsFeed(f), Newest(s, f, n)
    PROVE  s = SubSeq(f, 1, n)
<1>1. n \in Nat /\ n <= Len(f) /\ Len(f) \in Nat /\ s \in Seq(Event) /\ Len(s) = n
        /\ \A i \in 1..n : s[i] = f[i]
  BY DEF Newest, IsFeed
<1>2. \A i \in 1..n : f[i] \in Event
  BY <1>1
<1> DEFINE t == SubSeq(f, 1, n)
<1>3. /\ t \in Seq(Event) /\ Len(t) = IF 1 <= n THEN n - 1 + 1 ELSE 0
      /\ \A i \in 1..(n - 1 + 1) : t[i] = f[1 + i - 1]
  BY <1>1, <1>2, SubSeqProperties
<1> HIDE DEF t
<1>4. Len(t) = n /\ \A i \in 1..n : t[i] = f[i]
  BY <1>1, <1>3
<1>5. \A i \in 1..n : s[i] = t[i]
  BY <1>1, <1>4
<1>6. s = t
  BY <1>1, <1>3, <1>4, <1>5
<1> QED
  BY <1>6 DEF t

\* Over a feed that did not change meanwhile, paginate_events returns the
\* newest events, each once and in order, and why it stopped says how many.
THEOREM IngestReturnsTheFeed == Spec => []RunReturnsTheFeed
<1>1. Init => TypeInv /\ FeedInv
  <2> SUFFICES ASSUME Init PROVE TypeInv /\ FeedInv
    OBVIOUS
  <2>1. IsFeed(feed)
    BY FeedsAssumption DEF Init, IsFeed
  <2>2. ASSUME NEW c \in Command PROVE ReadOk(job[c], feed)
    BY DEF Init, NoJob, ReadOk
  <2> QED
    BY <2>1, <2>2, InitTypes DEF FeedInv
<1>2. TypeInv /\ FeedInv /\ [Next]_vars => (TypeInv /\ FeedInv)'
  BY Types, FeedKept
<1>3. ASSUME FeedInv PROVE RunReturnsTheFeed
  <2>1. SUFFICES ASSUME NEW c \in Command, At(c, "record"), job[c].steady
                 PROVE  LET n == Len(job[c].events)
                        IN  /\ job[c].events = SubSeq(feed, 1, n)
                            /\ CASE job[c].stopped = "max events" -> n = MaxEvents
                                 [] job[c].stopped = "max pages" ->
                                      n = Min({Len(feed), job[c].limits.pages * job[c].limits.size})
                                 [] job[c].stopped = "non-progressing page" -> n = Len(feed)
                                 [] OTHER -> Cardinality(job[c].matters) >= MaxMatters
    BY DEF RunReturnsTheFeed
  <2>2. PICK j, f : j = job[c] /\ f = feed /\ ReadOk(j, f) /\ IsFeed(f)
    BY <1>3 DEF FeedInv
  <2>3. Finished(j, f)
    BY <2>1, <2>2 DEF ReadOk, At
  <2>4. PICK n : /\ Newest(j.events, f, n)
                 /\ j.stopped \in {"max events", "max pages", "non-progressing page", "max matters"}
                 /\ j.stopped = "max events" => n = MaxEvents
                 /\ j.stopped = "max pages" => n = Least(j.limits.pages * j.limits.size, Len(f))
                 /\ j.stopped = "non-progressing page" => n = Len(f)
                 /\ j.stopped = "max matters" => Cardinality(j.matters) >= MaxMatters
                 /\ j.limits.size \in Nat /\ j.limits.pages \in Nat
    BY <2>3 DEF Finished
  <2>5. j.events = SubSeq(f, 1, n) /\ n = Len(j.events)
    <3>1. IsFeed(f)
      BY <2>2
    <3>2. Newest(j.events, f, n)
      BY <2>4
    <3>3. n = Len(j.events)
      BY <3>2 DEF Newest
    <3>4. j.events = SubSeq(f, 1, n)
      BY <3>1, <3>2, NewestIsSubSeq
    <3> QED
      BY <3>3, <3>4
  <2>6. Min({Len(f), j.limits.pages * j.limits.size}) = Least(j.limits.pages * j.limits.size, Len(f))
    <3> DEFINE a == Len(f)
               p == j.limits.pages
               s == j.limits.size
               b == p * s
    <3>1. IsFeed(f)
      BY <2>2
    <3>2. a \in Nat
      BY <3>1 DEF IsFeed
    <3>3. p \in Nat /\ s \in Nat
      BY <2>4
    <3> HIDE DEF a, p, s
    <3>4. b \in Nat
      BY <3>3
    <3> HIDE DEF b
    <3>5. Min({a, b}) = Least(b, a)
      BY <3>2, <3>4, MinOfTwo DEF Least
    <3> QED
      BY <3>5 DEF a, b, p, s
  <2>7. j.stopped = "max events" => n = MaxEvents
    BY <2>4
  <2>8. j.stopped = "max pages" => n = Min({Len(f), j.limits.pages * j.limits.size})
    <3>1. j.stopped = "max pages" => n = Least(j.limits.pages * j.limits.size, Len(f))
      BY <2>4
    <3> QED
      BY <2>6, <3>1
  <2>9. j.stopped = "non-progressing page" => n = Len(f)
    BY <2>4
  <2>10. j.stopped \notin {"max events", "max pages", "non-progressing page"} =>
           Cardinality(j.matters) >= MaxMatters
    BY <2>4
  <2>11. n = Len(job[c].events) /\ job[c].events = SubSeq(feed, 1, n)
    BY <2>2, <2>5
  <2>12. CASE j.stopped = "max events"
    BY <2>2, <2>7, <2>11, <2>12
  <2>13. CASE j.stopped = "max pages"
    BY <2>2, <2>8, <2>11, <2>13
  <2>14. CASE j.stopped = "non-progressing page"
    BY <2>2, <2>9, <2>11, <2>14
  <2>15. CASE j.stopped \notin {"max events", "max pages", "non-progressing page"}
    BY <2>2, <2>10, <2>11, <2>15
  <2> QED
    BY <2>12, <2>13, <2>14, <2>15
<1> QED
  BY <1>1, <1>2, <1>3, PTL DEF Spec
=============================================================================
