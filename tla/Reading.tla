------------------------------ MODULE Reading ------------------------------
(***************************************************************************)
(* web_fetch: one page is read.  The fetcher walks a chain of redirects    *)
(* (brain/effectors/safe_http.py): each hop is resolved, vetted, connected *)
(* to at the address that was vetted, and closed.  The tool turns what it  *)
(* got into text, or the failure into a result                             *)
(* (brain/effectors/web_fetch.py).                                         *)
(*                                                                         *)
(* Names resolve anew at every hop and may give other answers.  A page is  *)
(* a sequence of the tokens the HTML parser sees; a token of text counts   *)
(* as one byte of the body and one character of the text.  One name stands *)
(* for all skipped elements, which share one counter: "<lone>" is the      *)
(* start tag of one that has no end tag, as embed never has and head need  *)
(* not have.                                                               *)
(***************************************************************************)
EXTENDS Integers, FiniteSets, Sequences, SequencesExt

CONSTANTS
    Addresses,     \* what a name may resolve to
    Blocked,       \* those ip_is_blocked refuses
    Pages,         \* what a server may send: sequences of tokens
    MaxRedirects,  \* web_fetch_max_redirects
    MaxBytes,      \* web_fetch_max_bytes
    MaxText        \* web_fetch_max_text_chars

ASSUME ReadingAssumption ==
    /\ Blocked \subseteq Addresses
    /\ Pages \subseteq Seq(STRING)
    /\ MaxRedirects \in Nat /\ MaxBytes \in Nat \ {0} /\ MaxText \in Nat

VARIABLES
    reply,      \* "idle", "waiting", then what the tool came to
    step,       \* "validate", "connect", "respond" or "body"
    hop,        \* requests sent on the way here
    records,    \* the addresses the host has just resolved to
    peers,      \* history: the addresses connected to
    client,     \* is the HTTP client open?
    response,   \* is a response open?
    page,       \* what the server is sending
    body,       \* what has been read of it
    plain,      \* was the page text/plain?
    text,       \* what the tool hands over
    truncated   \* and whether it says that there was more

readingVars == <<reply, step, hop, records, peers, client, response,
                 page, body, plain, text, truncated>>

Replies == {"ok", "blocked", "timeout", "http_error", "http_status", "non_text", "raised"}

ReadingTypeOK ==
    /\ reply \in Replies \cup {"idle", "waiting"}
    /\ hop \in 0..(MaxRedirects + 1) /\ peers \subseteq Addresses
    /\ Len(body) <= MaxBytes /\ Len(text) <= MaxText

----------------------------------------------------------------------------
(* The extractor.                                                          *)

\* What the parser carries along a page.
Outside == [depth |-> 0, title |-> FALSE, parts |-> <<>>]

Fed_DepthBelowZero(x, t) ==
    CASE t \in {"<skip>", "<lone>"} -> [x EXCEPT !.depth = @ + 1]
      [] t = "</skip>"  -> [x EXCEPT !.depth = @ - 1]
      [] t = "<title>"  -> [x EXCEPT !.title = TRUE]
      [] t = "</title>" -> [x EXCEPT !.title = FALSE]
      [] OTHER          -> IF x.title \/ x.depth # 0 THEN x ELSE [x EXCEPT !.parts = Append(@, t)]

\* One token: a skipped element nests, the title is kept apart.
Fed(x, t) ==
    CASE t \in {"<skip>", "<lone>"} -> [x EXCEPT !.depth = @ + 1]
      [] t = "</skip>"  -> [x EXCEPT !.depth = IF @ > 0 THEN @ - 1 ELSE 0]
      [] t = "<title>"  -> [x EXCEPT !.title = TRUE]
      [] t = "</title>" -> [x EXCEPT !.title = FALSE]
      [] OTHER          -> IF x.title \/ x.depth # 0 THEN x ELSE [x EXCEPT !.parts = Append(@, t)]

\* What it carries after each token.
Parsed(tokens) ==
    LET x[n \in 0..Len(tokens)] == IF n = 0 THEN Outside ELSE Fed(x[n - 1], tokens[n])
    IN  x

Extracted(tokens) == Parsed(tokens)[Len(tokens)].parts

----------------------------------------------------------------------------
(* The tool and the fetcher.                                               *)

Fetch ==
    /\ reply' = "waiting" /\ step' = "validate" /\ hop' = 0
    /\ records' = <<>> /\ peers' = {} /\ client' = TRUE /\ response' = FALSE
    /\ page' = <<>> /\ body' = <<>>
    /\ plain' = FALSE /\ text' = <<>> /\ truncated' = FALSE

Going(s) == reply = "waiting" /\ step = s

\* The way out of fetch(): the response in hand, then the client, are closed.
Leave(r) == reply' = r /\ client' = FALSE /\ response' = FALSE

\* The scheme, the credentials or the port are refused; a host without a record
\* is; a resolver that fails raises, and run() does not catch it.
Unresolved ==
    /\ Going("validate") /\ hop <= MaxRedirects
    /\ \E r \in {"blocked", "raised"} : Leave(r)
    /\ UNCHANGED <<step, hop, records, peers, page, body, plain, text, truncated>>

\* Every record is classified, not only the one that is used.
Vetted(q) == \A n \in DOMAIN q : q[n] \notin Blocked

Resolved ==
    /\ Going("validate") /\ hop <= MaxRedirects
    /\ \E q \in SeqOf(Addresses, 2) \ {<<>>} :
           /\ records' = q
           /\ IF Vetted(q)
              THEN step' = "connect" /\ UNCHANGED <<reply, client, response>>
              ELSE Leave("blocked") /\ UNCHANGED step
    /\ UNCHANGED <<hop, peers, page, body, plain, text, truncated>>

TooManyRedirects ==
    /\ Going("validate") /\ hop > MaxRedirects
    /\ Leave("blocked")
    /\ UNCHANGED <<step, hop, records, peers, page, body, plain, text, truncated>>

Pinned_ByName(q) == Addresses

\* Where the connection goes: the URL that is sent names the address.
Pinned(q) == {Head(q)}

\* httpx refuses to put the address into the URL; run() does not catch that.
RequestInvalid ==
    /\ Going("connect")
    /\ Leave("raised")
    /\ UNCHANGED <<step, hop, records, peers, page, body, plain, text, truncated>>

Connect ==
    /\ Going("connect")
    /\ \E a \in Pinned(records) : peers' = peers \cup {a}
    /\ hop' = hop + 1
    /\ \/ step' = "respond" /\ response' = TRUE /\ UNCHANGED <<reply, client>>
       \/ (\E r \in {"timeout", "http_error"} : Leave(r)) /\ UNCHANGED step
    /\ UNCHANGED <<records, page, body, plain, text, truncated>>

Redirect_Uncounted ==
    /\ Going("respond") /\ step' = "validate" /\ response' = FALSE /\ hop' = hop - 1
    /\ UNCHANGED <<reply, records, peers, client, page, body, plain, text, truncated>>

\* A Location: the finally closes the response, and the next hop starts over.
Redirect ==
    /\ Going("respond") /\ step' = "validate" /\ response' = FALSE
    /\ UNCHANGED <<reply, hop, records, peers, client, page, body, plain, text, truncated>>

Answered ==
    /\ Going("respond") /\ step' = "body"
    /\ page' \in Pages
    /\ UNCHANGED <<reply, hop, records, peers, client, response, body, plain, text, truncated>>

AtCap(b) == Len(b) >= MaxBytes

Chunk ==
    /\ Going("body") /\ ~AtCap(body) /\ Len(body) < Len(page)
    /\ \E n \in (Len(body) + 1)..Len(page) :
           body' = SubSeq(page, 1, IF n > MaxBytes THEN MaxBytes ELSE n)
    /\ UNCHANGED <<reply, step, hop, records, peers, client, response, page, plain, text, truncated>>

BodyFails ==
    /\ Going("body") /\ ~AtCap(body)
    /\ \E r \in {"timeout", "http_error"} : Leave(r)
    /\ UNCHANGED <<step, hop, records, peers, page, body, plain, text, truncated>>

Capped(t) == SubSeq(t, 1, IF Len(t) > MaxText THEN MaxText ELSE Len(t))

\* truncated or text_truncated; a body of exactly the cap counts as cut.
More(b, t) == AtCap(b) \/ Len(t) > MaxText

\* The end of the body, or the cap: then status, type, decoding, extraction;
\* text/plain is taken as it is.  A charset that Python does not know raises.
Read ==
    /\ Going("body") /\ (AtCap(body) \/ body = page)
    /\ \/ \E r \in {"http_status", "non_text", "raised"} :
              Leave(r) /\ UNCHANGED <<plain, text, truncated>>
       \/ /\ Leave("ok") /\ plain' \in BOOLEAN
          /\ LET t == IF plain' THEN body ELSE Extracted(body)
             IN  text' = Capped(t) /\ truncated' = More(body, t)
    /\ UNCHANGED <<step, hop, records, peers, page, body>>

ReadingInit ==
    /\ reply = "idle" /\ step = "validate" /\ hop = 0 /\ records = <<>> /\ peers = {}
    /\ client = FALSE /\ response = FALSE
    /\ page = <<>> /\ body = <<>> /\ plain = FALSE /\ text = <<>> /\ truncated = FALSE

ReadingNext ==
    \/ Unresolved \/ Resolved \/ TooManyRedirects
    \/ RequestInvalid \/ Connect
    \/ Redirect \/ Answered \/ Chunk \/ BodyFails \/ Read

----------------------------------------------------------------------------
(* Properties.                                                             *)

(* Whatever a name resolves to at each hop, no connection is made to an    *)
(* address that is refused (validate_target, _build_request).              *)
OnlyVettedPeers == peers \cap Blocked = {}

Count(p, m, n, t) == Cardinality({k \in m..n : p[k] = t})

\* The reference, as HTML has it and not as the parser counts: an element goes
\* from its start tag to its end tag, over those that are nested in it.
Excess(p, m, n) == Count(p, m, n, "<skip>") - Count(p, m, n, "</skip>")

Element(p, m, k) ==
    /\ p[m] = "<skip>" /\ Excess(p, m, k) = 0
    /\ \A j \in m..(k - 1) : Excess(p, m, j) > 0

Title(p, m, k) ==
    /\ p[m] = "<title>" /\ p[k] = "</title>"
    /\ \A j \in m..(k - 1) : p[j] # "</title>"

Inside(p, n) ==
    \E m \in 1..(n - 1), k \in (n + 1)..Len(p) : Element(p, m, k) \/ Title(p, m, k)

Tags == {"<skip>", "</skip>", "<lone>", "<title>", "</title>"}

\* The text that stands in no title and in no skipped element.
Showing(p) == {n \in 1..Len(p) : p[n] \notin Tags /\ ~Inside(p, n)}

\* No element that should have an end tag lacks it.
WellFormed(p) ==
    /\ \A m \in 1..Len(p) : p[m] = "<skip>" => \E k \in m..Len(p) : Element(p, m, k)
    /\ \A m \in 1..Len(p) : p[m] = "<title>" => \E k \in m..Len(p) : Title(p, m, k)

\* t is the tokens of p at the given places, in their order.
TakenAt(t, p, places) ==
    \E where \in [1..Len(t) -> places] :
        /\ \A m, n \in 1..Len(t) : m < n => where[m] < where[n]
        /\ \A i \in places : \E n \in 1..Len(t) : where[n] = i
        /\ \A n \in 1..Len(t) : t[n] = p[where[n]]

WholePage == reply = "ok" /\ ~truncated

(* A page that is cut short, by bytes or by characters, never passes for a *)
(* whole one.  One that is not cut gives text of its own and nothing that  *)
(* stands in a skipped element or the title, whatever is nested, left open *)
(* or closed without being opened; and where no end tag is missing, it     *)
(* gives all such text (_read_capped, _cap, _ReadableTextExtractor).       *)
NothingIsLostSilently ==
    /\ ReadingTypeOK
    /\ WholePage /\ plain => text = page
    /\ WholePage /\ ~plain =>
           \E places \in SUBSET Showing(page) :
               /\ TakenAt(text, page, places)
               /\ WellFormed(page) /\ "<lone>" \notin Range(page) => places = Showing(page)

=============================================================================
