------------------------------- MODULE Tools -------------------------------
(***************************************************************************)
(* The effector belt from the cycle's side: ACT commits one action at a    *)
(* time, the tool runs, and the tick goes on once it has returned or       *)
(* raised (brain/effectors/dispatch.py).  A fetch and a snippet take many  *)
(* steps, Sandbox and Reading say which; a search is one request           *)
(* (searxng.py, web_search.py, news.py).                                   *)
(***************************************************************************)
EXTENDS Sandbox, Reading

CONSTANTS
    Found,    \* what SearXNG may return: sequences of rows
    MaxResults,   \* news_max_results, web_search_max_results
    MaxCalls  \* bound: actions committed

\* A row has a URL or none; its date is what the clock reads, in hours, and the
\* zone that is written behind it.
Zones == {"undated", "naive", "utc", "east", "west"}
Rows == [url : BOOLEAN, reads : Nat, zone : Zones]

ASSUME ToolsAssumption ==
    /\ Found \subseteq Seq(Rows)
    /\ MaxResults \in Nat \ {0} /\ MaxCalls \in Nat

VARIABLES
    call,    \* the tool under way, or "none"
    shown,   \* what the last search handed over: places in what was found
    found,   \* and the rows it was chosen from
    calls    \* history: actions committed

beltVars == <<call, shown, found, calls>>
toolsVars == <<sandboxVars, readingVars, beltVars>>

ToolsTypeOK ==
    /\ call \in {"none", "code_exec", "web_fetch"}
    /\ calls \in 0..MaxCalls /\ Len(shown) <= MaxResults

----------------------------------------------------------------------------
Free == call = "none" /\ calls < MaxCalls

CallCode ==
    /\ Free /\ call' = "code_exec" /\ calls' = calls + 1
    /\ CodeRefused \/ Launch
    /\ shown' = <<>> /\ found' = <<>>
    /\ UNCHANGED readingVars

CallFetch ==
    /\ Free /\ call' = "web_fetch" /\ calls' = calls + 1
    /\ Fetch
    /\ shown' = <<>> /\ found' = <<>>
    /\ UNCHANGED sandboxVars

\* parse_search_results: a row without a URL is skipped.
Usable(q) == {n \in DOMAIN q : q[n].url}

\* As strings, of two dates that read the same: nothing, +00:00, +01:00, -01:00.
Suffix == [naive |-> 0, utc |-> 1, east |-> 2, west |-> 3]

\* Dates are compared as the strings they are; a row without one counts least.
Fresher(r, s) ==
    /\ r.zone # "undated"
    /\ \/ s.zone = "undated"
       \/ r.reads > s.reads
       \/ r.reads = s.reads /\ Suffix[r.zone] > Suffix[s.zone]

\* The later first, and otherwise as they came.
Before(q, i, j) == Fresher(q[i], q[j]) \/ (~Fresher(q[j], q[i]) /\ i < j)

HowMany(q, n) ==
    LET all == Cardinality(Usable(q)) IN IF n < all THEN n ELSE all

\* The first n places of the ranking, or all of it.
News(q, n) ==
    {p \in [1..HowMany(q, n) -> Usable(q)] :
        /\ \A i, j \in DOMAIN p : i < j => Before(q, p[i], p[j])
        /\ \A i \in Usable(q) \ Range(p) : \A j \in DOMAIN p : Before(q, p[j], i)}

\* The argument may ask for fewer results, never for more.
Limits == 1..MaxResults

Browse ==
    /\ Free /\ calls' = calls + 1
    /\ \E q \in Found, n \in Limits : found' = q /\ shown' \in News(q, n)
    /\ UNCHANGED <<sandboxVars, readingVars, call>>

\* web_search hands over the first results as they came, which nothing here is
\* about.
Search ==
    /\ Free /\ calls' = calls + 1
    /\ shown' = <<>> /\ found' = <<>>
    /\ UNCHANGED <<sandboxVars, readingVars, call>>

\* SearXNG is down, slow, or answers with an error or no JSON object: a failed
\* result of either tool, never an exception.
SearchFails ==
    /\ Free /\ calls' = calls + 1
    /\ shown' = <<>> /\ found' = <<>>
    /\ UNCHANGED <<sandboxVars, readingVars, call>>

\* Nothing of a fetch outlives its call; of a snippet, the container may, which
\* is followed no further (bound).
Forgotten ==
    /\ reply' = "idle" /\ step' = "validate" /\ hop' = 0 /\ records' = <<>> /\ peers' = {}
    /\ client' = FALSE /\ response' = FALSE
    /\ page' = <<>> /\ body' = <<>> /\ plain' = FALSE /\ text' = <<>> /\ truncated' = FALSE
    /\ answer' = "idle" /\ launcher' = "off" /\ printed' = <<>> /\ Fresh
    /\ clock' = 0 /\ born' = 0 /\ since' = 0 /\ spent' = 0 /\ faults' = 0

Commit ==
    /\ \/ call = "code_exec" /\ answer # "waiting"
       \/ call = "web_fetch" /\ reply # "waiting"
    /\ call' = "none"
    /\ Forgotten
    /\ UNCHANGED <<shown, found, calls>>

Sandboxed == SandboxNext /\ UNCHANGED <<readingVars, beltVars>>

Fetching == call = "web_fetch" /\ ReadingNext /\ UNCHANGED <<sandboxVars, beltVars>>

ToolsInit ==
    /\ SandboxInit /\ ReadingInit
    /\ call = "none" /\ shown = <<>> /\ found = <<>> /\ calls = 0

ToolsNext ==
    \/ CallCode \/ CallFetch \/ Browse \/ Search \/ SearchFails \/ Commit
    \/ Sandboxed \/ Fetching

\* A coroutine that can go on does; of docker nothing is assumed.  The clock and
\* the three limits do their work, and so do sockets, up to their timeouts.
ToolsFairness ==
    /\ WF_toolsVars(Commit)
    /\ WF_toolsVars(Fetching)
    /\ WF_toolsVars(InTool /\ UNCHANGED <<readingVars, beltVars>>)
    /\ WF_toolsVars(Tick /\ UNCHANGED <<readingVars, beltVars>>)
    /\ WF_toolsVars(Alarm /\ UNCHANGED <<readingVars, beltVars>>)
    /\ WF_toolsVars(Backstop /\ WaitComesToNothing /\ UNCHANGED <<readingVars, beltVars>>)

ToolsSpec == ToolsInit /\ [][ToolsNext]_toolsVars /\ ToolsFairness

----------------------------------------------------------------------------
(* Properties; the others are those of Sandbox and Reading.                *)

(* The heart is never held up for good: whatever docker does or does not,  *)
(* and however a site redirects, the tick gets its tool back (the outer    *)
(* wait, the redirect cap, the timeouts).                                  *)
CallsComeBack == call # "none" ~> call = "none"

LeftOut == Usable(found) \ Range(shown)

(* Of the news, no dated row is left out for one without a date, and of    *)
(* two dates written in one zone the newer is not left out for the older;  *)
(* across zones it may be, since the dates are compared as strings         *)
(* (_recency_key, results_to_payload).                                     *)
NewestOfEachZone ==
    \A i \in Range(shown), j \in LeftOut :
        /\ found[i].zone = "undated" => found[j].zone = "undated"
        /\ found[i].zone = found[j].zone /\ found[i].zone # "undated" =>
               found[i].reads >= found[j].reads

(* What a tool leaves out, it leaves out openly: a page that is cut is     *)
(* said to be, one that is not and has all its end tags is given but for   *)
(* the elements skipped, and of the news of one zone the newest are kept.  *)
LeavesOutOpenly == ToolsTypeOK /\ NothingIsLostSilently /\ NewestOfEachZone

=============================================================================
