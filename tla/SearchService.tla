----------------------------- MODULE SearchService -----------------------------
(***************************************************************************)
(* poc/search_service.py: searches on the threads of a pool share a cache of*)
(* validated provider responses (poc/catalog.py resolves their hits).  The  *)
(* cache's lock is held for the lookup and again for the store, never while *)
(* the provider is asked.                                                  *)
(***************************************************************************)
EXTENDS Naturals, Sequences, FiniteSets, SequencesExt

CONSTANTS
    Searches,       \* searches, each on a thread of its own
    Keys,           \* what a response is cached under: [query, edition] records
    Catalog,        \* the dashboard's packages: [id, edition] records
    Responses,      \* what the provider may answer: sequences of hits
    ScopeConfirmed, \* the configuration flag
    CacheLimit,     \* 128 entries
    TimeToLive,     \* 300 seconds, in ticks
    Deadline,       \* the transport's deadline, in ticks
    MaxTime         \* bound: the last tick

AnyEdition == "any"     \* edition None

ASSUME ServiceConstants ==
    /\ IsFiniteSet(Searches) /\ IsFiniteSet(Keys)
    /\ CacheLimit \in Nat \ {0} /\ TimeToLive \in Nat \ {0} /\ Deadline \in Nat /\ MaxTime \in Nat
    /\ ScopeConfirmed \in BOOLEAN

VARIABLES
    now,        \* time.monotonic()
    cache,      \* the ordered dict: entries [key, at, value], the next to evict first
    stage,      \* where each search is
    key,        \* what it looks for
    asked,      \* when it asked the provider
    result,     \* what it has found, if anything
    given,      \* history: the responses the provider gave, with key and time
    used        \* history: the keys looked up with success or stored, in that order

serviceVars == <<now, cache, stage, key, asked, result, given, used>>

-----------------------------------------------------------------------------
\* Catalog.resolve_hit: a package, an omission, or a breach of the contract.
UrlIds == {p.id : p \in Catalog}
Package(hit) == [id |-> hit.id, edition |-> hit.edition]

\* Wrong variant: a hit of another edition is let through.
BreachOfTrustOnly(hit, edition) == ~hit.scoped

Breach(hit, edition) ==
    \/ ~hit.scoped                                      \* doc_type, platform, URL
    \/ edition # AnyEdition /\ hit.edition # edition
    \/ hit.id \in UrlIds /\ Package(hit) \notin Catalog
Omitted(hit) == hit.id \notin UrlIds

\* One breach discards the whole response.
Valid(hits, edition) == \A i \in DOMAIN hits : ~Breach(hits[i], edition)
Kept(hits) == {i \in DOMAIN hits : ~Omitted(hits[i])}

\* The packages, by the place of their hit in the provider's ranking
Mapped(hits) ==
    [packages |-> [i \in Kept(hits) |-> Package(hits[i])],
     omitted |-> Cardinality(DOMAIN hits \ Kept(hits))]

Nothing == Mapped(<<>>)
Values == {Nothing} \cup {Mapped(hits) : hits \in Responses}

ServiceTypeOK ==
    /\ now \in 0..MaxTime
    /\ cache \in Seq([key : Keys, at : 0..MaxTime, value : Values])
    /\ stage \in [Searches -> {"idle", "asking", "storing", "empty", "unavailable", "answered"}]
    /\ key \in [Searches -> Keys]
    /\ asked \in [Searches -> 0..MaxTime]
    /\ result \in [Searches -> Values]
    /\ given \subseteq [key : Keys, at : 0..MaxTime, hits : Responses]
    /\ used \in Seq(Keys)

ServiceInit ==
    /\ now = 0 /\ cache = <<>>
    /\ stage = [s \in Searches |-> "idle"]
    /\ key \in [Searches -> Keys]
    /\ asked = [s \in Searches |-> 0]
    /\ result = [s \in Searches |-> Nothing]
    /\ given = {} /\ used = <<>>

-----------------------------------------------------------------------------
\* The ordered dict
At(k) == {i \in DOMAIN cache : cache[i].key = k}

\* OrderedDict.move_to_end
MoveToEnd(i) == Append(RemoveAt(cache, i), cache[i])

\* dict[k] = value, in its place if it has one, then move_to_end
PutLast(k, value) ==
    LET entry == [key |-> k, at |-> now, value |-> value] IN
      IF At(k) = {} THEN Append(cache, entry)
      ELSE Append(RemoveAt(cache, CHOOSE i \in At(k) : TRUE), entry)

\* Evict down to the limit.
Evict(entries) ==
    IF Len(entries) > CacheLimit
    THEN SubSeq(entries, Len(entries) - CacheLimit + 1, Len(entries)) ELSE entries

\* Wrong variant: an entry that is never too old.
FreshForever(entry) == TRUE
Fresh(entry) == now - entry.at < TimeToLive

-----------------------------------------------------------------------------
Goto(s, where) == stage' = [stage EXCEPT ![s] = where]
Hold(s, value) == result' = [result EXCEPT ![s] = value]
Touch(k) == used' = Append(used, k)

\* search without a confirmed scope, or without a query
Decline(s) ==
    /\ stage[s] = "idle"
    /\ Goto(s, IF ScopeConfirmed THEN "empty" ELSE "unavailable")
    /\ UNCHANGED <<now, cache, key, asked, result, given, used>>

\* The lookup, under the lock
Hit(s) ==
    /\ stage[s] = "idle" /\ ScopeConfirmed
    /\ \E i \in At(key[s]) :
         /\ Fresh(cache[i])
         /\ Hold(s, cache[i].value)
         /\ cache' = MoveToEnd(i)
    /\ Goto(s, "answered")
    /\ Touch(key[s])
    /\ UNCHANGED <<now, key, asked, given>>

Miss(s) ==
    /\ stage[s] = "idle" /\ ScopeConfirmed
    /\ \A i \in At(key[s]) : ~Fresh(cache[i])
    /\ Goto(s, "asking")
    /\ asked' = [asked EXCEPT ![s] = now]
    /\ UNCHANGED <<now, cache, key, result, given, used>>

\* The transport raises, or what it returns is no list of at most KB_LIMIT hits.
Fail(s) ==
    /\ stage[s] = "asking"
    /\ Goto(s, "unavailable")
    /\ UNCHANGED <<now, cache, key, asked, result, given, used>>

\* The provider answers with hits; they take their time to arrive, and are resolved.
Retrieve(s) ==
    /\ stage[s] = "asking"
    /\ \E hits \in Responses :
         /\ given' = given \cup {[key |-> key[s], at |-> now, hits |-> hits]}
         /\ IF Valid(hits, key[s].edition) THEN Hold(s, Mapped(hits)) /\ Goto(s, "storing")
            ELSE Goto(s, "unavailable") /\ UNCHANGED result
    /\ UNCHANGED <<now, cache, key, asked, used>>

\* The store, under the lock again; the entry's time is now.
Store(s) ==
    /\ stage[s] = "storing"
    /\ cache' = Evict(PutLast(key[s], result[s]))
    /\ Goto(s, "answered")
    /\ Touch(key[s])
    /\ UNCHANGED <<now, key, asked, result, given>>

\* The transport keeps its deadline, and what follows it takes less than a tick.
Tick ==
    /\ now < MaxTime
    /\ \A s \in Searches : stage[s] \in {"asking", "storing"} => now - asked[s] < Deadline
    /\ now' = now + 1
    /\ UNCHANGED <<cache, stage, key, asked, result, given, used>>

ServiceNext ==
    \/ \E s \in Searches : Decline(s) \/ Hit(s) \/ Miss(s) \/ Fail(s) \/ Retrieve(s) \/ Store(s)
    \/ Tick

ServiceSpec == ServiceInit /\ [][ServiceNext]_serviceVars

-----------------------------------------------------------------------------
\* A cached value is what validation made of one response that the provider gave for that
\* very key and whose every hit kept the contract: failures and breaches are not cached,
\* nor are another edition's results (README.md:94-96, search_service.py:36-70).
CachedAnswersValid ==
    \A i \in DOMAIN cache : \E g \in given :
        /\ g.key = cache[i].key
        /\ cache[i].value = Mapped(g.hits)
        /\ \A j \in DOMAIN cache[i].value.packages :
              LET package == cache[i].value.packages[j]
              IN  package \in Catalog /\ g.key.edition \in {AnyEdition, package.edition}

\* k was used after the last use of other, or other never was.
UsedAfter(k, other) ==
    \E i \in DOMAIN used :
      used[i] = k /\ \A j \in DOMAIN used : j >= i => used[j] # other

\* The cache holds the keys used last, in the order of their last use, and as many as it
\* may, however lookups and stores of several threads interleave
\* (search_service.py:42-45, 65-69).
LastUsedKept ==
    /\ Len(cache) <= CacheLimit
    /\ \A i, j \in DOMAIN cache : i < j => UsedAfter(cache[j].key, cache[i].key)
    /\ \A i \in DOMAIN cache : \E j \in DOMAIN used : used[j] = cache[i].key
    /\ \A k \in {used[j] : j \in DOMAIN used} : At(k) = {} =>
         /\ Len(cache) = CacheLimit
         /\ \A i \in DOMAIN cache : UsedAfter(cache[i].key, k)

\* Together: the cache is well typed, sound and ordered.
CacheSound == ServiceTypeOK /\ CachedAnswersValid /\ LastUsedKept

\* What a search returns was the provider's response to that search no longer ago than the
\* five minutes of the cache and the deadline of the transport, although the entry's time
\* is taken after the provider answered (search_service.py:42-69).
AnswersRecent ==
    [][ \A s \in Searches : stage[s] # "answered" /\ stage'[s] = "answered" =>
          \E g \in given : /\ g.key = key[s] /\ Mapped(g.hits) = result'[s]
                           /\ now < g.at + TimeToLive + Deadline ]_serviceVars
=============================================================================
