-------------------------- MODULE PagedIngestion --------------------------
(***************************************************************************)
(* Ingestion from an HTTP API, page by page: the REST job                  *)
(* (src/ingestion/rest/rest_api_ingestion.py, three ways of paging) and    *)
(* the OData job (src/ingestion/odata/odata_ingestion.py, server links or  *)
(* $skip).  A run reads its watermark, fetches all pages, appends them in  *)
(* one commit and closes its record (src/ingestion/metadata/...).          *)
(*                                                                         *)
(* The API is external: a list of records in some order, filtered by their *)
(* time of change, that keeps changing between the pages.  A page is a     *)
(* range of ranks in that list; no two records change at the same moment.  *)
(***************************************************************************)
EXTENDS Integers, FiniteSets

CONSTANTS
  Records,     \* keys of the API's records, in the order of their keys
  InitialTime, \* time of change of the records at first; 0: not there yet
  PageSize,    \* page_size, which the server does not cut down
  Sources,     \* configurations: [job, paging, order, incremental, column]
  Endings,     \* how end_run comes out: its record is merged, or refused
  MaxTime,     \* bound on the API's clock
  MaxFails     \* bound on exceptions and killed runs

(* job: whose code; paging: pagination.strategy, for OData whether the     *)
(* server sends next links; order: what the API sorts its list by;         *)
(* incremental: is a watermark parameter sent; column: is a watermark      *)
(* column configured, of which the maximum is taken.                       *)
Source ==
  [job : {"rest", "odata"}, paging : {"offset_limit", "cursor", "link_header", "next_link", "skip"},
   order : {"key", "time"}, incremental : BOOLEAN, column : BOOLEAN]

ASSUME RecordAssumption == Records \subseteq Nat \ {0} /\ IsFiniteSet(Records)
ASSUME TimeAssumption   ==
  /\ InitialTime \in [Records -> 0..MaxTime] /\ MaxTime \in Nat
  /\ \A q, r \in Records : InitialTime[q] = InitialTime[r] /\ q # r => InitialTime[q] = 0
ASSUME PageAssumption   == PageSize \in Nat \ {0} /\ MaxFails \in Nat
ASSUME SourceAssumption ==
  /\ Sources \subseteq Source
  /\ \A s \in Sources : s.job = "odata" <=> s.paging \in {"next_link", "skip"}
ASSUME EndingAssumption == Endings \subseteq {"merged", "refused"}

VARIABLES
  clock,    \* the API's clock
  time,     \* each record's time of change; 0: it is not in the API
  source,   \* the configuration, chosen once
  saved,    \* MAX(watermark_value) of the successful runs
  landed,   \* versions of records in the Bronze table: [key, time]
  step,     \* the job's next step
  since,    \* the run's last_watermark
  offset,   \* offset, or page * page_size
  linked,   \* was the next page's position given by a cursor or a link
  after,    \* the position it stands for
  fetched,  \* all_records
  verdict,  \* status and new_watermark for end_run
  raced,    \* versions that appeared between a run's first page and its append (history)
  shifted,  \* versions that moved, or landed, behind a fetch by offsets (history)
  fails

api     == <<clock, time>>
fetch   == <<since, offset, linked, after, fetched>>
history == <<raced, shifted>>
apiVars == <<api, source, saved, landed, step, fetch, verdict, history, fails>>

NoWatermark == -1
Version     == [key : Records, time : Nat]
Current(r)  == [key |-> r, time |-> time[r]]
Max0(S)     == IF S = {} THEN 0 ELSE CHOOSE n \in S : \A m \in S : m <= n

-----------------------------------------------------------------------------
(* The API (external).                                                     *)

(* The field the list is sorted by, and a cursor points into.              *)
SortKey(r) == IF source.order = "key" THEN r ELSE time[r]

(* The records changed after the watermark; their places in the sorted     *)
(* list, from 1 on.                                                        *)
Listed  == {r \in Records : time[r] > since}
UpTo(k) == {r \in Listed : SortKey(r) <= k}
Rank(r) == Cardinality(UpTo(SortKey(r)))

(* The page that follows a cursor or link, or starts at an offset.         *)
Position == IF linked THEN Cardinality(UpTo(after)) ELSE offset
PageEnd  == Position + PageSize
Page     == {r \in Listed : Position < Rank(r) /\ Rank(r) <= PageEnd}
Full     == Cardinality(Page) = PageSize

(* Does the API send a cursor or a link with the page?                     *)
Link ==
  /\ source.paging \notin {"offset_limit", "skip"}
  /\ \E r \in Listed : Rank(r) > PageEnd

ByOffset == step = "fetch" /\ ~linked

(* What the next page would begin with moves across its boundary when r,   *)
(* of an earlier page, leaves its place.                                   *)
Skipped(r) ==
  IF ByOffset /\ r \in Listed /\ Rank(r) <= offset
    THEN {Current(q) : q \in {p \in Listed : Rank(p) = offset + 1}}
    ELSE {}

(* In a list sorted by time a changed record r moves to the end, which is  *)
(* before the next page if the list has shrunk since the offset was taken. *)
LandsBehind(r) ==
  IF ByOffset /\ Cardinality(Listed \cup {r}) <= offset
    THEN {[key |-> r, time |-> clock + 1]}
    ELSE {}

\* A fetch has read a page, and what it read is not appended yet.
Reading == step = "append" \/ (step = "fetch" /\ (linked \/ offset > 0))

(* A record is created or changed.                                         *)
Change(r) ==
  /\ clock < MaxTime
  /\ clock' = clock + 1
  /\ time' = [time EXCEPT ![r] = clock + 1]
  /\ raced' = IF Reading THEN raced \cup {[key |-> r, time |-> clock + 1]} ELSE raced
  /\ shifted' = IF source.order = "time"
                  THEN shifted \cup Skipped(r) \cup LandsBehind(r) ELSE shifted
  /\ UNCHANGED <<source, saved, landed, step, fetch, verdict, fails>>

Withdraw(r) ==
  /\ clock < MaxTime
  /\ time[r] # 0
  /\ clock' = clock + 1
  /\ time' = [time EXCEPT ![r] = 0]
  /\ shifted' = shifted \cup Skipped(r)
  /\ UNCHANGED <<source, saved, landed, step, fetch, verdict, raced, fails>>

-----------------------------------------------------------------------------
Unfinished == [status |-> "FAILED", watermark |-> NoWatermark]

ApiInit ==
  /\ time = InitialTime
  /\ clock = Max0({InitialTime[r] : r \in Records})
  /\ source \in Sources
  /\ saved = 0 /\ landed = {}
  /\ step = "idle" /\ since = 0 /\ offset = 0 /\ linked = FALSE /\ after = 0 /\ fetched = {}
  /\ verdict = Unfinished
  /\ raced = {} /\ shifted = {}
  /\ fails = 0

(* get_last_watermark and start_run.                                       *)
Start ==
  /\ step = "idle"
  /\ since' = IF source.incremental THEN saved ELSE 0
  /\ step' = "fetch"
  /\ UNCHANGED <<api, source, saved, landed, offset, linked, after, fetched, verdict, history, fails>>

(* A page is taken; the next one, if any, is where link or offset says.    *)
Take(more, next) ==
  /\ fetched' = fetched \cup {Current(r) : r \in Page}
  /\ offset' = next /\ linked' = Link
  /\ after' = IF Link THEN Max0({SortKey(r) : r \in Page}) ELSE after
  /\ step' = IF more THEN "fetch" ELSE "append"
  /\ UNCHANGED <<api, source, saved, landed, since, verdict, history, fails>>

\* Variant: the offset advances by one record more than was read.
OffsetPageAhead ==
  /\ step = "fetch" /\ source.paging = "offset_limit"
  /\ Take(Full, offset + PageSize + 1)

(* _paginate_offset_limit: a short or empty page is the last one.          *)
OffsetPage ==
  /\ step = "fetch" /\ source.paging = "offset_limit"
  /\ Take(Full, offset + PageSize)

\* Variant: the cursor is not sent on with the next request.
LinkedPageAgain ==
  /\ step = "fetch" /\ source.paging \in {"cursor", "link_header"}
  /\ fetched' = fetched \cup {Current(r) : r \in Page}
  /\ step' = IF Link THEN "fetch" ELSE "append"
  /\ UNCHANGED <<api, source, saved, landed, since, offset, linked, after, verdict, history, fails>>

(* _paginate_cursor and _paginate_link_header: no records, or no cursor or *)
(* link with them, ends it.                                                *)
LinkedPage ==
  /\ step = "fetch" /\ source.paging \in {"cursor", "link_header"}
  /\ Take(Link, offset)

(* OData: the next link, or else $skip after a full page, counted from the *)
(* first page whatever links came before.                                  *)
ODataPage ==
  /\ step = "fetch" /\ source.job = "odata" /\ ~source.incremental
  /\ Take(Link \/ Full, offset + PageSize)

(* An incremental OData run without a success yet filters by "gt None":    *)
(* the service rejects the request.                                        *)
RejectFilter ==
  /\ step = "fetch" /\ source.job = "odata" /\ source.incremental
  /\ step' = "end"
  /\ UNCHANGED <<api, source, saved, landed, fetch, verdict, history, fails>>

Appended == landed \cup fetched

\* Variant: the watermark is the time it is now, whatever is configured.
WatermarkIsNow ==
  IF source.job = "odata" THEN NoWatermark ELSE IF fetched = {} THEN since ELSE clock

(* Nothing fetched: the old watermark again.  Else one append, and the     *)
(* maximum of the watermark column, or the time it is now.  OData keeps    *)
(* none: a full refresh has no watermark.                                  *)
NewWatermark ==
  IF source.job = "odata" THEN NoWatermark
  ELSE IF fetched = {} THEN since
  ELSE IF source.column THEN Max0({v.time : v \in fetched})
  ELSE clock

AppendToBronze ==
  /\ step = "append"
  /\ landed' = Appended
  /\ verdict' = [status |-> "SUCCESS", watermark |-> NewWatermark]
  /\ step' = "end"
  /\ UNCHANGED <<api, source, saved, fetch, history, fails>>

(* A request, or the append, raises, possibly after it committed.          *)
Fail ==
  /\ fails < MaxFails
  /\ fails' = fails + 1
  /\ \/ step = "fetch" /\ landed' = landed
     \/ step = "append" /\ landed' \in {landed, Appended}
  /\ step' = "end"
  /\ UNCHANGED <<api, source, saved, fetch, verdict, history>>

Forget ==
  /\ step' = "idle" /\ since' = 0 /\ offset' = 0 /\ linked' = FALSE /\ after' = 0 /\ fetched' = {}
  /\ verdict' = Unfinished

(* end_run: the record is merged, and counts if it is a SUCCESS with a     *)
(* watermark; or its row is refused, and the record stays RUNNING.         *)
EndRun ==
  /\ step = "end"
  /\ \/ /\ "merged" \in Endings
        /\ saved' = IF verdict.status = "SUCCESS" THEN Max0({saved, verdict.watermark}) ELSE saved
     \/ /\ "refused" \in Endings
        /\ saved' = saved
  /\ Forget
  /\ UNCHANGED <<api, source, landed, history, fails>>

(* The cluster is lost or the task times out.                              *)
LoseCluster ==
  /\ step # "idle"
  /\ fails < MaxFails
  /\ fails' = fails + 1
  /\ Forget
  /\ UNCHANGED <<api, source, saved, landed, history>>

RunStep == OffsetPage \/ LinkedPage \/ ODataPage \/ RejectFilter \/ AppendToBronze \/ EndRun

ApiNext ==
  \/ \E r \in Records : Change(r) \/ Withdraw(r)
  \/ Start \/ RunStep \/ Fail \/ LoseCluster

(* A run that has started goes on until it is killed.  Nothing is assumed  *)
(* of when, or whether, a run starts.                                      *)
ApiSpec == ApiInit /\ [][ApiNext]_apiVars /\ WF_apiVars(RunStep)

-----------------------------------------------------------------------------
(* Type correctness of the API, the job's locals and Bronze.                *)
ApiTypeOK ==
  /\ clock \in 0..MaxTime /\ time \in [Records -> 0..MaxTime] /\ source \in Sources
  /\ saved \in 0..clock /\ since \in 0..clock /\ offset \in Nat
  /\ linked \in BOOLEAN /\ after \in Nat /\ fails \in 0..MaxFails
  /\ \A versions \in {landed, fetched, raced, shifted} : versions \subseteq Version
  /\ step \in {"idle", "fetch", "append", "end"}
  /\ verdict.status \in {"SUCCESS", "FAILED"} /\ verdict.watermark \in 0..clock \cup {NoWatermark}

Excused(r) == Current(r) \in raced \cup shifted
Passed(r)  ==
  \/ Current(r) \in shifted
  \/ Current(r) \in raced /\ ~(source.column /\ source.order = "time")

(* However it pages, a fetch misses no record that was there at its first  *)
(* page and has not changed since, except the one record a change to an    *)
(* earlier page moved across the boundary of the next one.                 *)
FetchIsComplete ==
  step = "append" =>
    \A r \in Records : time[r] > since /\ ~Excused(r) => Current(r) \in fetched

(* A record's version at or below the watermark, which no later run asks   *)
(* for, is in Bronze.  Where the watermark is the maximum of the column    *)
(* the API sorts by, that holds even of what changed during the fetch.     *)
NoRecordSkipped ==
  \A r \in Records :
    0 < time[r] /\ time[r] <= saved /\ ~Passed(r) => Current(r) \in landed

(* Whatever way it pages, and however the list moves under it, a run ends: *)
(* no page is asked for again and again.  (The list stops changing at      *)
(* MaxTime; one that grows faster than it is read is never at its end.)    *)
EveryRunEnds == step # "idle" ~> step = "idle"
=============================================================================
