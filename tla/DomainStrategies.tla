--------------------------- MODULE DomainStrategies ---------------------------
(***************************************************************************)
(* What the adaptive crawler learns of a domain (crawler.py): the tier it  *)
(* starts with, the delay after rate limits, and how many pages it got,    *)
(* kept in memory and rewritten to one file after each change.  Crawlers   *)
(* may die and start again, and may share the file.  Of a page only its    *)
(* quality counts; extraction, redirects and the checks of the URL are     *)
(* left out.  Delays are in half seconds.                                  *)
(***************************************************************************)
EXTENDS Integers, FiniteSets

CONSTANTS
  Crawler, Domain,
  Short,                  \* a file truncated and not yet written
  MaxDelay,               \* ten seconds
  MaxPages, MaxRestarts   \* bounds of the runs

ASSUME DelayAssumption == MaxDelay \in Nat \ {0}

VARIABLES
  dsMemory,    \* of each crawler: the strategies by domain
  dsFile,      \* the strategies by domain, or Short
  dsDoing,     \* where each crawler is with its page
  dsPages,     \* pages taken up so far
  dsRestarts,
  dsLast       \* the crawler that has saved last

dsVars == <<dsMemory, dsFile, dsDoing, dsPages, dsRestarts, dsLast>>

Unknown == [tier |-> "static_http", requires_js |-> FALSE, delay |-> 1,
            consecutive_successes |-> 0, total_crawls |-> 0]

Recall(memory, d) == IF d \in DOMAIN memory THEN memory[d] ELSE Unknown
Learn(memory, d, strategy) ==
  [e \in DOMAIN memory \cup {d} |-> IF e = d THEN strategy ELSE memory[e]]

Between == [step |-> "between"]

\* A file that cannot be parsed is a warning, and nothing is known.
_load == IF dsFile = Short THEN <<>> ELSE dsFile

DsInit ==
  /\ dsFile = <<>> /\ dsMemory = [p \in Crawler |-> <<>>]
  /\ dsDoing = [p \in Crawler |-> Between]
  /\ dsPages = 0 /\ dsRestarts = 0 /\ dsLast \in Crawler

\* The tier is decided once, before anything is fetched.
crawl_page(p) ==
  /\ dsDoing[p] = Between /\ dsPages < MaxPages /\ dsPages' = dsPages + 1
  /\ \E d \in Domain :
       LET s == Recall(dsMemory[p], d) IN
       /\ dsMemory' = [dsMemory EXCEPT ![p] = Learn(@, d, s)]
       /\ dsDoing' = [dsDoing EXCEPT ![p] = [step |-> s.tier, domain |-> d]]
  /\ UNCHANGED <<dsFile, dsRestarts, dsLast>>

\* A record: the strategy is changed and everything saved, then comes next.
Record(p, strategy, next) ==
  /\ dsMemory' = [dsMemory EXCEPT ![p] = Learn(@, dsDoing[p].domain, strategy)]
  /\ dsDoing' = [dsDoing EXCEPT ![p] = [step |-> "save", domain |-> @.domain, next |-> next]]

Leave(p) ==
  dsDoing' = [dsDoing EXCEPT ![p] = Between] /\ UNCHANGED dsMemory

Succeeded(s, tier) ==
  [s EXCEPT !.tier = tier, !.requires_js = (tier = "headless_browser"),
            !.consecutive_successes = @ + 1, !.total_crawls = @ + 1]

Escalated(s) == [s EXCEPT !.tier = "headless_browser", !.requires_js = TRUE]

Limited(s) == [s EXCEPT !.delay = IF 2 * @ < MaxDelay THEN 2 * @ ELSE MaxDelay]

\* A page, an empty shell, a rate limit, or another error or a block.
_attempt_static_extract(p) ==
  /\ dsDoing[p].step = "static_http"
  /\ LET s == Recall(dsMemory[p], dsDoing[p].domain) IN
       \/ Record(p, Succeeded(s, "static_http"), Between)
       \/ Record(p, Escalated(s), [step |-> "headless_browser", domain |-> dsDoing[p].domain])
       \/ Record(p, Limited(s), Between)
       \/ Leave(p)
  /\ UNCHANGED <<dsFile, dsPages, dsRestarts, dsLast>>

\* Only a page of high quality is recorded; a partial one is returned all the same.
_attempt_headless_extract(p) ==
  /\ dsDoing[p].step = "headless_browser"
  /\ LET s == Recall(dsMemory[p], dsDoing[p].domain) IN
       \/ Record(p, Succeeded(s, "headless_browser"), Between)
       \/ Record(p, Limited(s), Between)
       \/ Leave(p)
  /\ UNCHANGED <<dsFile, dsPages, dsRestarts, dsLast>>

\* write_text truncates the file, then writes all strategies.
SaveTruncates(p) ==
  /\ dsDoing[p].step = "save" /\ dsFile' = Short
  /\ dsDoing' = [dsDoing EXCEPT ![p].step = "write"]
  /\ UNCHANGED <<dsMemory, dsPages, dsRestarts, dsLast>>

\* Mutant of Dump: what has no page yet is not worth keeping.
DumpCrawled(memory) ==
  [d \in {e \in DOMAIN memory : memory[e].total_crawls > 0} |-> memory[d]]

Dump(memory) == memory

SaveWrites(p) ==
  /\ dsDoing[p].step = "write" /\ dsFile' = Dump(dsMemory[p])
  /\ dsDoing' = [dsDoing EXCEPT ![p] = @.next] /\ dsLast' = p
  /\ UNCHANGED <<dsMemory, dsPages, dsRestarts>>

\* A crawler ends, in the middle of whatever it does, and another starts.
Restart(p) ==
  /\ dsRestarts < MaxRestarts /\ dsRestarts' = dsRestarts + 1
  /\ dsMemory' = [dsMemory EXCEPT ![p] = _load]
  /\ dsDoing' = [dsDoing EXCEPT ![p] = Between]
  /\ UNCHANGED <<dsFile, dsPages, dsLast>>

DsNext ==
  \E p \in Crawler :
    \/ crawl_page(p) \/ _attempt_static_extract(p) \/ _attempt_headless_extract(p)
    \/ SaveTruncates(p) \/ SaveWrites(p) \/ Restart(p)

DsSpec == DsInit /\ [][DsNext]_dsVars
-----------------------------------------------------------------------------
\* The tiers, in every crawler and on file: headless and JavaScript go together,
\* the delay keeps to its cap, and more pages than were taken up are never counted.
StrategiesAreSound ==
  \A s \in UNION ({{m[d] : d \in DOMAIN m} : m \in {dsMemory[p] : p \in Crawler}}
                  \cup {IF dsFile = Short THEN {} ELSE {dsFile[d] : d \in DOMAIN dsFile}}) :
    /\ s.requires_js <=> s.tier = "headless_browser"
    /\ s.delay \in 1..MaxDelay
    /\ s.total_crawls <= dsPages

\* A crawler never goes back to static pages for a domain it knows to need a
\* browser, whatever rate limits, errors and thin pages come after; only a new
\* life from an older or broken file makes it forget.
EscalationSticks ==
  dsRestarts' = dsRestarts =>
    \A p \in Crawler : \A d \in DOMAIN dsMemory[p] :
      dsMemory[p][d].tier = "headless_browser" => dsMemory'[p][d].tier = "headless_browser"

\* The crawler that has saved last has on file everything it has learned, up to
\* the page it is at: a restart then forgets nothing, not even the other domains.
LearnedIsOnFile ==
  \A p \in Crawler : dsLast = p /\ dsDoing[p] = Between /\ dsFile # Short =>
    \A d \in Domain : Recall(dsMemory[p], d) = Recall(dsFile, d)

\* Every step of a crawler leaves sound strategies, on file as far as it has saved,
\* and forgets no escalation.
StrategiesAreRemembered ==
  [][StrategiesAreSound' /\ LearnedIsOnFile' /\ EscalationSticks]_dsVars
=============================================================================
