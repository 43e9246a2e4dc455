----------------------------- MODULE CrawlPages -----------------------------
(***************************************************************************)
(* The walk of one crawl: Crawler.crawl and the loop of run_scan that takes *)
(* its pages.  Links are known when a page is fetched and not before.  The  *)
(* fetches of a batch overlap; their results are taken in the batch's       *)
(* order.  Others write and remove the stop file; a heartbeat may halt the  *)
(* crawl; a page may not be fetched, and storing it may fail.               *)
(***************************************************************************)
EXTENDS Naturals, FiniteSets, Sequences, SequencesExt

CONSTANTS
    Urls,               \* normalized .onion addresses
    DomainOf,           \* [Urls -> domains]
    Seeds,              \* the seed lists to begin with: a seed may be listed twice
    LinkLists,          \* what pages link to
    MaxDepth,           \* max_depth
    MaxConcurrent,      \* max_concurrent
    MaxPagesPerDomain   \* max_pages_per_domain

ASSUME CrawlAssumption ==
    /\ Seeds \subseteq Seq(Urls) /\ LinkLists \subseteq Seq(Urls)
    /\ MaxDepth \in Nat /\ MaxConcurrent \in Nat \ {0} /\ MaxPagesPerDomain \in Nat

VARIABLES
    seeds,          \* the list this crawl was given
    stayOnDomain,   \* stay_on_domain
    frontier,       \* queue: url, depth, origin_domain
    visited,        \* _visited
    batch,          \* the batch under way, each with its result
    stopFile,       \* the stop file exists
    stopSeen,       \* stop_requested
    halted,         \* _halt
    recorded,       \* the pages stored, in order
    lost,           \* history: fetches that raised
    ended           \* how the crawl ended

given == <<seeds, stayOnDomain>>
signals == <<stopFile, halted>>
walkVars == <<given, signals, frontier, visited, batch, stopSeen, recorded, lost, ended>>

Item == [url : Urls, depth : 0..MaxDepth, origin : {DomainOf[u] : u \in Urls}]
Results == [ok : BOOLEAN, links : LinkLists \cup {<<>>}]
NoResult == [ok |-> FALSE, links |-> <<>>]

\* at: a page waits for its turn, is fetched, or has a result.
InBatch(item) == [item |-> item, at |-> "waits", result |-> NoResult]
HasResult(b) == b.at \in {"fetched", "stopped", "raised"}

WalkTypeOK ==
    /\ visited \subseteq Urls
    /\ \A i \in DOMAIN frontier : frontier[i] \in Item
    /\ \A i \in DOMAIN batch : batch[i].item \in Item /\ batch[i].result \in Results
    /\ stopFile \in BOOLEAN /\ stopSeen \in BOOLEAN /\ halted \in BOOLEAN
    /\ ended \in {"no", "completed", "stopped", "failed"}

Queued(list) == [i \in DOMAIN list |-> [url |-> list[i], depth |-> 0, origin |-> DomainOf[list[i]]]]

\* A seed listed twice is queued twice.
WalkInit ==
    /\ seeds \in Seeds /\ stayOnDomain \in BOOLEAN
    /\ frontier = Queued(seeds)
    /\ visited = Range(seeds)
    /\ batch = <<>> /\ recorded = <<>> /\ lost = {}
    /\ stopFile = FALSE /\ stopSeen = FALSE /\ halted = FALSE
    /\ ended = "no"

\* _stop_now also notes that the stop file was seen.
StopNow == halted \/ stopFile
BugNoted == stopSeen
Noted == stopSeen \/ (stopFile /\ ~halted)

\* Between two batches: the crawl stops, ends, or takes what comes next.
NextBatch ==
    /\ ended = "no" /\ batch = <<>>
    /\ \/ /\ frontier = <<>>
          /\ ended' = IF stopSeen THEN "stopped" ELSE "completed"
          /\ UNCHANGED <<frontier, batch, stopSeen>>
       \/ /\ frontier # <<>> /\ StopNow
          /\ stopSeen' = Noted
          /\ ended' = IF Noted THEN "stopped" ELSE "completed"
          /\ UNCHANGED <<frontier, batch>>
       \/ /\ frontier # <<>> /\ ~StopNow
          /\ LET n == IF Len(frontier) < MaxConcurrent THEN Len(frontier) ELSE MaxConcurrent
             IN /\ batch' = [i \in 1..n |-> InBatch(frontier[i])]
                /\ frontier' = SubSeq(frontier, n + 1, Len(frontier))
          /\ UNCHANGED <<stopSeen, ended>>
    /\ UNCHANGED <<given, signals, visited, recorded, lost>>

\* A page of the batch looks for a stop before it is fetched.
Look(i) ==
    /\ ended = "no" /\ batch[i].at = "waits"
    /\ batch' = [batch EXCEPT ![i].at = IF StopNow THEN "stopped" ELSE "fetches"]
    /\ stopSeen' = Noted
    /\ UNCHANGED <<given, signals, frontier, visited, recorded, lost, ended>>

\* It comes with its links, or with an error and none; or nothing comes of the fetch.
Fetched(i) ==
    /\ batch[i].at = "fetches"
    /\ \/ \E links \in LinkLists :
             batch' = [batch EXCEPT ![i].at = "fetched",
                                    ![i].result = [ok |-> TRUE, links |-> links]]
       \/ batch' = [batch EXCEPT ![i].at = "fetched"]
       \/ batch' = [batch EXCEPT ![i].at = "raised"]
    /\ UNCHANGED <<given, signals, frontier, visited, stopSeen, recorded, lost, ended>>

PagesOf(domain) == Cardinality({i \in DOMAIN recorded : DomainOf[recorded[i].url] = domain})

\* _should_crawl, when the page of item was recorded; count: the pages of the link's domain.
Wanted(link, item, count) ==
    /\ ~stayOnDomain \/ DomainOf[link] = item.origin
    /\ count < MaxPagesPerDomain

BugJoins(queue, found) == found \o queue
Joins(queue, found) == queue \o found

\* A link of the page of b, when queue holds those before it that join.
AddLink(b, queue, link) ==
    LET domain == DomainOf[link]
        count == PagesOf(domain) + (IF DomainOf[b.item.url] = domain THEN 1 ELSE 0)
    IN IF link \in visited \cup {q.url : q \in Range(queue)} \/ ~Wanted(link, b.item, count)
       THEN queue
       ELSE Append(queue, [url |-> link, depth |-> b.item.depth + 1, origin |-> b.item.origin])

\* The links of a page that join the frontier: those wanted, each once.
NewLinks(b) ==
    LET links == b.result.links
        Queue[n \in 0..Len(links)] ==
            IF n = 0 THEN <<>> ELSE AddLink(b, Queue[n - 1], links[n])
    IN IF b.item.depth < MaxDepth /\ b.result.ok THEN Queue[Len(links)] ELSE <<>>

\* gather has every result: the first one is taken.  A page is counted and stored, then
\* its links are queued; a page that was stopped leaves nothing.
Take ==
    /\ ended = "no" /\ batch # <<>> /\ \A i \in DOMAIN batch : HasResult(batch[i])
    /\ LET b == Head(batch) IN
       /\ batch' = Tail(batch)
       /\ lost' = IF b.at = "raised" THEN lost \cup {b.item.url} ELSE lost
       /\ IF b.at # "fetched" THEN UNCHANGED <<frontier, visited, recorded>>
          ELSE /\ recorded' = Append(recorded, [url |-> b.item.url, depth |-> b.item.depth,
                       origin |-> b.item.origin, ok |-> b.result.ok, links |-> b.result.links])
               /\ frontier' = Joins(frontier, NewLinks(b))
               /\ visited' = visited \cup {n.url : n \in Range(NewLinks(b))}
    /\ UNCHANGED <<given, signals, stopSeen, ended>>

\* save_page, or what follows for its hits, raises: the crawl is given up.
TakeFails ==
    /\ ended = "no" /\ batch # <<>> /\ \A i \in DOMAIN batch : HasResult(batch[i])
    /\ Head(batch).at = "fetched"
    /\ ended' = "failed"
    /\ UNCHANGED <<given, signals, frontier, visited, batch, stopSeen, recorded, lost>>

\* A user stops the crawl; the end of an earlier one, or the status route, takes the file away.
StopFileChanges ==
    /\ ended = "no" /\ stopFile' = ~stopFile
    /\ UNCHANGED <<given, frontier, visited, batch, stopSeen, halted, recorded, lost, ended>>

\* halt: the session was ended elsewhere.
Halt ==
    /\ ended = "no" /\ ~halted /\ halted' = TRUE
    /\ UNCHANGED <<given, frontier, visited, batch, stopFile, stopSeen, recorded, lost, ended>>

WalkNext ==
    \/ NextBatch \/ Take \/ TakeFails \/ StopFileChanges \/ Halt
    \/ \E i \in DOMAIN batch : Look(i) \/ Fetched(i)

WalkSpec == WalkInit /\ [][WalkNext]_walkVars

-----------------------------------------------------------------------------
Asked(page) == {l \in Range(page.links) :
    page.ok /\ page.depth < MaxDepth /\ (stayOnDomain => DomainOf[l] = page.origin)}
Seen(url) == url \in lost \/ \E i \in DOMAIN recorded : recorded[i].url = url

\* "BFS crawl from seed URLs": no page is stored deeper than the links of another page
\* put it, though fetches overlap and pages fail.
ShortestDepth ==
    \A i, j \in DOMAIN recorded :
        recorded[j].url \in Asked(recorded[i]) => recorded[j].depth <= recorded[i].depth + 1

\* A crawl recorded as completed has fetched every seed and every link that it was to
\* follow, but for full domains, also when a stop file came and went: pages skipped for
\* a stop make it "stopped".  A crawl that was halted has lost its row already.
CompletedIsComplete ==
    ended = "completed" /\ ~halted =>
        /\ \A s \in Range(seeds) : Seen(s)
        /\ \A i \in DOMAIN recorded : \A l \in Asked(recorded[i]) :
              Seen(l) \/ PagesOf(DomainOf[l]) >= MaxPagesPerDomain
=============================================================================
