------------------------------ MODULE RateCache ------------------------------
(***************************************************************************)
(* Exchange rates in the web client: exchange-rate-cache.ts keeps them in  *)
(* localStorage, one store that every tab reads and writes whole, and the  *)
(* dashboard asks for those of its subscriptions' currencies whenever its  *)
(* data are fetched, to show amounts in the preferred currency.            *)
(*                                                                         *)
(* A getItem and the setItem that follows it are two steps: another tab    *)
(* may write in between, while the tab itself does nothing else.           *)
(***************************************************************************)
EXTENDS Screens, Naturals

CONSTANTS MaxLookups,   \* bound on the dashboard's effects
          MaxRateClock  \* bound on the clock

RateTabs == {"left", "right"}
Currencies == {"EUR", "USD", "JPY"}
Pairs == Currencies \X Currencies
RateTTL == 1            \* 6 hours

\* What is not there is no rate.
ASSUME RatesAssumption ==
    None \notin [rate : Currencies \X Currencies \X Nat, expires : Nat] \cup (Currencies \X Currencies \X Nat)

VARIABLES
    rateClock,
    rateStore,      \* localStorage: pair -> [rate, expires], None when it is not there
    preferred,      \* the preferred currency of each tab's last fetch
    sources,        \* the currencies of its subscriptions
    pageRates,      \* exchangeRates of each tab: pair -> rate, None when it is not there
    effect,         \* the lookup whose answer the tab still takes, 0 for none
    lookups,        \* lookups under way: what each has found, and the store that it changes
    lookupCount,    \* history: their number
    lookedSince,    \* history: when the last lookup of each tab began
    unknown         \* history: the rates that it did not get from the server

rateVars == <<rateClock, rateStore, preferred, sources, pageRates, effect, lookups, lookupCount, lookedSince, unknown>>

\* A rate is known by its pair and by when it was received.
Rate(source, target) == <<source, target, rateClock>>

Live(pair) == rateStore[pair] # None /\ rateStore[pair].expires > rateClock

\* The preferred currency is in the key, so rates of two preferences do not mix.
Merge(tab, target, found) ==
    [p \in Pairs |-> IF p[2] = target /\ found[p[1]] # None THEN found[p[1]] ELSE pageRates[tab][p]]

\* A tab between two statements, unlike one that waits for the server.
TabBusy(tab) == \E q \in lookups : q.tab = tab /\ q.at # "wait"

MissingRates(q) == {s \in q.wanted : q.found[s] = None}

Continues(q, r) == lookups' = (lookups \ {q}) \cup {r} /\ UNCHANGED <<pageRates, effect>>

\* The page takes what was found, unless a later effect has cancelled this one.
LookupEnds(q, found) ==
    /\ lookups' = lookups \ {q}
    /\ IF effect[q.tab] = q.n
       THEN /\ pageRates' = [pageRates EXCEPT ![q.tab] = Merge(q.tab, q.target, found)]
            /\ effect' = [effect EXCEPT ![q.tab] = 0]
       ELSE UNCHANGED <<pageRates, effect>>

-----------------------------------------------------------------------------
\* The effect that follows a fetch; without a foreign currency there is nothing to look up.
Lookup(tab, target, wanted) ==
    /\ ~TabBusy(tab)
    /\ lookupCount < MaxLookups /\ lookupCount' = lookupCount + 1
    /\ preferred' = [preferred EXCEPT ![tab] = target]
    /\ sources' = [sources EXCEPT ![tab] = wanted \cup {target}]
    /\ lookedSince' = [lookedSince EXCEPT ![tab] = rateClock]
    /\ unknown' = [unknown EXCEPT ![tab] = {}]
    /\ effect' = [effect EXCEPT ![tab] = IF wanted = {} THEN 0 ELSE lookupCount + 1]
    /\ lookups' = lookups \cup
          {q \in {[n |-> lookupCount + 1, tab |-> tab, target |-> target, at |-> "look", wanted |-> wanted, todo |-> wanted,
                   found |-> [c \in Currencies |-> None], changes |-> {}, seen |-> None]} : wanted # {}}
    /\ UNCHANGED <<rateClock, rateStore, pageRates>>

\* One currency is looked for after the other, and the server is asked for those missing.
LookedFor(q, r) ==
    IF r.todo # {} THEN Continues(q, r)
    ELSE IF MissingRates(r) = {} THEN LookupEnds(q, r.found)
    ELSE Continues(q, [r EXCEPT !.at = "wait"])

\* getCachedExchangeRate, which takes a rate that has expired out of the store as it read it.
LookFor(q, s) ==
    /\ q.at = "look" /\ s \in q.todo
    /\ LET pair == <<s, q.target>>
       IN  IF rateStore[pair] # None /\ ~Live(pair)
           THEN Continues(q, [q EXCEPT !.at = "drop", !.changes = {s}, !.seen = rateStore])
           ELSE LookedFor(q, [q EXCEPT !.todo = @ \ {s}, !.found[s] = IF Live(pair) THEN rateStore[pair].rate ELSE None])
    /\ UNCHANGED <<rateClock, rateStore, preferred, sources, lookupCount, lookedSince, unknown>>

\* The server knows some of the rates, or does not answer; the store is read again.
RatesArrive(q, known) ==
    /\ q.at = "wait" /\ ~TabBusy(q.tab)
    /\ IF known = {} THEN LookupEnds(q, q.found)
       ELSE Continues(q, [q EXCEPT !.at = "store", !.changes = known, !.seen = rateStore,
                                 !.found = [c \in Currencies |-> IF c \in known THEN Rate(c, q.target) ELSE q.found[c]]])
    /\ unknown' = IF effect[q.tab] = q.n THEN [unknown EXCEPT ![q.tab] = MissingRates(q) \ known] ELSE unknown
    /\ UNCHANGED <<rateClock, rateStore, preferred, sources, lookupCount, lookedSince>>

\* The whole store is written, as it was read but for the entries of some currencies.
Bug_StoreWith(q) ==
    [p \in Pairs |-> IF p[2] = q.target /\ p[1] \in q.changes /\ q.found[p[1]] # None
                     THEN [rate |-> q.found[p[1]], expires |-> q.found[p[1]][3] + RateTTL] ELSE None]

StoreWith(q) ==
    [p \in Pairs |-> IF p[2] # q.target \/ p[1] \notin q.changes THEN q.seen[p]
                     ELSE IF q.found[p[1]] = None THEN None
                     ELSE [rate |-> q.found[p[1]], expires |-> q.found[p[1]][3] + RateTTL]]

WriteStore(q) ==
    /\ q.at \in {"drop", "store"}
    /\ rateStore' = StoreWith(q)
    /\ IF q.at = "store" THEN LookupEnds(q, q.found)
       ELSE LookedFor(q, [q EXCEPT !.at = "look", !.todo = @ \ q.changes, !.changes = {}, !.seen = None])
    /\ UNCHANGED <<rateClock, preferred, sources, lookupCount, lookedSince, unknown>>

RateTick ==
    /\ rateClock < MaxRateClock /\ rateClock' = rateClock + 1
    /\ UNCHANGED <<rateStore, preferred, sources, pageRates, effect, lookups, lookupCount, lookedSince, unknown>>

\* The store is empty, or full of what an earlier visit left.
RateInit ==
    /\ rateClock = 0 /\ preferred = [t \in RateTabs |-> None]
    /\ \E left \in {{}, Pairs} :
          rateStore = [p \in Pairs |-> IF p \in left THEN [rate |-> <<p[1], p[2], 0>>, expires |-> RateTTL] ELSE None]
    /\ sources = [t \in RateTabs |-> {}] /\ pageRates = [t \in RateTabs |-> [p \in Pairs |-> None]]
    /\ effect = [t \in RateTabs |-> 0] /\ lookups = {} /\ lookupCount = 0
    /\ lookedSince = [t \in RateTabs |-> 0] /\ unknown = [t \in RateTabs |-> {}]

RateNext ==
    \/ \E tab \in RateTabs, target \in {"EUR", "USD"} :
          \E wanted \in SUBSET (Currencies \ {target}) : Lookup(tab, target, wanted)
    \/ \E q \in lookups : \/ WriteStore(q)
                          \/ \E s \in q.todo : LookFor(q, s)
                          \/ \E known \in SUBSET MissingRates(q) : RatesArrive(q, known)
    \/ RateTick

-----------------------------------------------------------------------------
(* What a card shows of an amount in a currency: the rate that it takes.   *)
CardRate(tab, currency) == IF currency = preferred[tab] THEN None ELSE pageRates[tab][<<currency, preferred[tab]>>]

\* An amount is converted with the rate of its own currency to the preferred one, even
\* when the preference changes while rates of the former one are on their way.
CardsConvertRight ==
    \A tab \in RateTabs : \A c \in sources[tab] :
        CardRate(tab, c) # None => CardRate(tab, c)[1] = c /\ CardRate(tab, c)[2] = preferred[tab]

\* Whatever the other tab writes over, or brings back with a store that it read before: once
\* its lookup is over a tab shows a rate for each of its currencies, but those that the server
\* did not give, and none that had expired when the lookup began.
CardsHaveRates ==
    \A tab \in RateTabs : effect[tab] = 0 =>
        \A c \in sources[tab] \ ({preferred[tab]} \cup unknown[tab]) :
            CardRate(tab, c) # None /\ CardRate(tab, c)[3] + RateTTL > lookedSince[tab]

\* A store that is written back as it was read mixes no pairs and lengthens no rate's life.
RatesKeepTheirAge ==
    \A p \in Pairs : rateStore[p] # None =>
        /\ rateStore[p].rate[1] = p[1] /\ rateStore[p].rate[2] = p[2] /\ rateStore[p].rate[3] <= rateClock
        /\ rateStore[p].expires = rateStore[p].rate[3] + RateTTL

\* A tab writes over what another wrote since it read the store (exchange-rate-cache.ts:80-91).
Crossed == \E q \in lookups \ lookups' : q.at \in {"drop", "store"} /\ q.seen # rateStore

\* A rate leaves the store only when it has expired, and is only replaced by one that was
\* received later, unless the two tabs crossed.
CacheKept ==
    [][\A p \in Pairs : rateStore[p] # None /\ rateStore'[p] # rateStore[p] =>
          \/ rateStore[p].expires <= rateClock
          \/ rateStore'[p] # None /\ rateStore'[p].rate[3] > rateStore[p].rate[3]
          \/ Crossed]_rateVars

\* Rates are used for their own pair only and while they are valid, and kept for all tabs
\* until they expire, unless two tabs cross: that costs a request, and no rate on a page.
RatesKept ==
    []CardsConvertRight /\ []CardsHaveRates /\ []RatesKeepTheirAge /\ CacheKept
=============================================================================
