---------------------------- MODULE DashboardList ----------------------------
(***************************************************************************)
(* What the dashboard lists and in which order: use-dashboard-filters.ts   *)
(* and its toolbar, over subscriptions, labels and rates that each fetch   *)
(* may change behind the filters.  Names, dates and amounts are small      *)
(* numbers, of which only the order counts.                                *)
(***************************************************************************)
EXTENDS Screens, Integers, FiniteSets

CONSTANT MaxToggles   \* bound on what the user does with the toolbar

Statuses == {"active", "ended"}
Modes == {"auto_renew", "manual_renew", "cancel_at_period_end"}
SortFields == {"next_billing_date", "name", "created_at", "amount"}
Never == 9            \* the timestamp of a date that is not there

\* A subscription; two have one name, two one amount, and one has no date.
Sub(id, name, due, since, amount, foreign, status, mode, category, method) ==
    [id |-> id, name |-> name, due |-> due, created |-> since, amount |-> amount, foreign |-> foreign,
     status |-> status, mode |-> mode, category |-> category, method |-> method]

Catalogue ==
    {Sub(1, 1, 2, 1, 2, FALSE, "active", "auto_renew", "video", 7),
     Sub(2, 2, 1, 2, 4, TRUE, "active", "manual_renew", None, None),
     Sub(3, 1, 2, 3, 2, FALSE, "ended", "cancel_at_period_end", None, 7),
     Sub(4, 3, Never, 4, 1, TRUE, "active", "cancel_at_period_end", "music", None)}

VARIABLES
    subscriptions,      \* as the last fetch gave them
    labels,             \* the label of each category: it changes with the language and by renaming
    rate,               \* the rate of the foreign currency, 0 before it is known
    disabledLast,       \* a display preference, of localStorage
    searched,           \* the name that is searched for, or None
    selectedStatuses, selectedModes, selectedCategories, includeNoCategory,
    selectedMethods, includeNoMethod, sortField, descending,
    toggles             \* history

filters == <<searched, selectedStatuses, selectedModes, selectedCategories, includeNoCategory, selectedMethods,
             includeNoMethod>>

dashboardVars ==
    <<subscriptions, labels, rate, disabledLast, filters, sortField, descending, toggles>>

-----------------------------------------------------------------------------
CategoryName(s) == IF s.category = None THEN None ELSE labels[s.category]

CategoryOptions == {CategoryName(s) : s \in subscriptions} \ {None}

ByCategory(s) ==
    \/ selectedCategories = {} /\ ~includeNoCategory
    \/ IF CategoryName(s) = None THEN includeNoCategory ELSE CategoryName(s) \in selectedCategories

ByMethod(s) ==
    \/ selectedMethods = {} /\ ~includeNoMethod
    \/ IF s.method = None THEN includeNoMethod ELSE s.method \in selectedMethods

Filtered ==
    {s \in subscriptions :
        /\ searched # None => s.name = searched
        /\ s.status \in selectedStatuses
        /\ selectedModes # {} => s.mode \in selectedModes
        /\ ByCategory(s) /\ ByMethod(s)}

\* An amount without a rate is compared as it is.
Comparable(s) == IF s.foreign /\ rate # 0 THEN s.amount * rate ELSE s.amount

Compare2(a, b) ==
    CASE sortField = "name"       -> a.name - b.name
      [] sortField = "created_at" -> a.created - b.created
      [] sortField = "amount"     -> Comparable(a) - Comparable(b)
      [] OTHER                    -> a.due - b.due

\* The comparison of the sort: whether a comes before b.
Before(a, b) ==
    IF disabledLast /\ a.status # b.status THEN a.status = "active"
    ELSE IF Compare2(a, b) = 0 THEN (a.id < b.id) # descending
    ELSE (Compare2(a, b) < 0) # descending

Bug_HasActiveFilters ==
    \/ searched # None \/ selectedStatuses # {"active"}
    \/ selectedCategories # {} \/ includeNoCategory \/ selectedMethods # {} \/ includeNoMethod
    \/ sortField # "next_billing_date" \/ descending

\* Whether the toolbar offers to reset.
HasActiveFilters ==
    \/ searched # None \/ selectedStatuses # {"active"}
    \/ selectedCategories # {} \/ includeNoCategory
    \/ selectedMethods # {} \/ selectedModes # {} \/ includeNoMethod
    \/ sortField # "next_billing_date" \/ descending

Count(b) == IF b THEN 1 ELSE 0

ActiveFilterCount ==
    Count(selectedStatuses # {"active"}) + Cardinality(selectedCategories) + Count(includeNoCategory)
    + Cardinality(selectedMethods) + Cardinality(selectedModes) + Count(includeNoMethod)

-----------------------------------------------------------------------------
Toggled(set, e) == IF e \in set THEN set \ {e} ELSE set \cup {e}

UsesToolbar ==
    /\ toggles < MaxToggles /\ toggles' = toggles + 1
    /\ UNCHANGED <<subscriptions, labels, rate, disabledLast>>

SearchFor(name) ==
    /\ UsesToolbar
    /\ searched' = name
    /\ UNCHANGED <<selectedStatuses, selectedModes, selectedCategories, includeNoCategory, selectedMethods,
                   includeNoMethod, sortField, descending>>

\* The last status that is taken out brings the active ones back.
ToggleStatus(s) ==
    /\ UsesToolbar
    /\ selectedStatuses' = IF selectedStatuses = {s} THEN {"active"} ELSE Toggled(selectedStatuses, s)
    /\ UNCHANGED <<searched, selectedModes, selectedCategories, includeNoCategory, selectedMethods,
                   includeNoMethod, sortField, descending>>

ToggleRenewalMode(m) ==
    /\ UsesToolbar
    /\ selectedModes' = Toggled(selectedModes, m)
    /\ UNCHANGED <<searched, selectedStatuses, selectedCategories, includeNoCategory, selectedMethods,
                   includeNoMethod, sortField, descending>>

ToggleCategory(c) ==
    /\ UsesToolbar
    /\ IF c = None THEN includeNoCategory' = ~includeNoCategory /\ UNCHANGED selectedCategories
       ELSE selectedCategories' = Toggled(selectedCategories, c) /\ UNCHANGED includeNoCategory
    /\ UNCHANGED <<searched, selectedStatuses, selectedModes, selectedMethods, includeNoMethod, sortField, descending>>

ToggleMethod(m) ==
    /\ UsesToolbar
    /\ IF m = None THEN includeNoMethod' = ~includeNoMethod /\ UNCHANGED selectedMethods
       ELSE selectedMethods' = Toggled(selectedMethods, m) /\ UNCHANGED includeNoMethod
    /\ UNCHANGED <<searched, selectedStatuses, selectedModes, selectedCategories, includeNoCategory, sortField,
                   descending>>

SelectSort(f) ==
    /\ UsesToolbar
    /\ sortField' = f
    /\ descending' = (f = sortField /\ ~descending)
    /\ UNCHANGED filters

ResetFilters ==
    /\ HasActiveFilters
    /\ UsesToolbar
    /\ searched' = None /\ selectedStatuses' = {"active"} /\ selectedModes' = {} /\ selectedCategories' = {}
    /\ includeNoCategory' = FALSE /\ selectedMethods' = {} /\ includeNoMethod' = FALSE
    /\ sortField' = "next_billing_date" /\ descending' = FALSE

\* What changes behind the filters: the data, the language, the rates, a preference of
\* another tab.  The filters stay as they are.
DashboardFetched ==
    /\ \E set \in SUBSET Catalogue :
          /\ Cardinality(set) >= 3 /\ subscriptions' = set
          /\ \/ UNCHANGED <<labels, rate, disabledLast>>
             \/ labels = [video |-> "video", music |-> "music"] /\ labels' = [video |-> "clips", music |-> "music"]
                /\ UNCHANGED <<rate, disabledLast>>
    /\ UNCHANGED <<filters, sortField, descending, toggles>>

DashboardRates ==
    /\ rate = 0 /\ rate' = 2
    /\ UNCHANGED <<subscriptions, labels, disabledLast, filters, sortField, descending, toggles>>

PreferenceStored ==
    /\ disabledLast' = ~disabledLast
    /\ UNCHANGED <<subscriptions, labels, rate, filters, sortField, descending, toggles>>

DashboardInit ==
    /\ subscriptions = Catalogue /\ labels = [video |-> "video", music |-> "music"] /\ rate = 0
    /\ disabledLast = FALSE /\ searched = None /\ selectedStatuses = {"active"} /\ selectedModes = {}
    /\ selectedCategories = {} /\ includeNoCategory = FALSE /\ selectedMethods = {} /\ includeNoMethod = FALSE
    /\ sortField = "next_billing_date" /\ descending = FALSE /\ toggles = 0

DashboardNext ==
    \/ \E name \in {1, 3, None} : SearchFor(name)
    \/ \E s \in Statuses : ToggleStatus(s)
    \/ \E m \in Modes : ToggleRenewalMode(m)
    \/ \E c \in CategoryOptions \cup {None} : ToggleCategory(c)
    \/ \E m \in {7, None} : ToggleMethod(m)
    \/ \E f \in SortFields : SelectSort(f)
    \/ ResetFilters \/ DashboardFetched \/ DashboardRates \/ PreferenceStored

-----------------------------------------------------------------------------
\* An active subscription is missing from the list only while the toolbar shows why
\* and offers to reset, whatever was fetched, renamed or translated meanwhile.
NothingHiddenSilently ==
    (\E s \in subscriptions : s.status = "active" /\ s \notin Filtered) =>
        HasActiveFilters /\ (searched # None \/ ActiveFilterCount > 0)

\* The comparison orders any list in exactly one way: without it the order would
\* depend on the sort, and change from one fetch to the next.
OrderIsTotal ==
    /\ \A a, b \in subscriptions : a # b => Before(a, b) # Before(b, a)
    /\ \A a, b \in subscriptions : Before(a, b) =>
           \A c \in subscriptions \ {a} : Before(b, c) => Before(a, c)

\* The dashboard's list leaves nothing out in silence and has one order.
ListIsHonest ==
    NothingHiddenSilently /\ OrderIsTotal
=============================================================================
