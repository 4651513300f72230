---------------------------- MODULE SettingsLists ----------------------------
(***************************************************************************)
(* The lists a user keeps on the settings page: categories in their order, *)
(* day templates, planning rules by priority, travel rules, and the two    *)
(* rows beside them, the preferences and the window of the day             *)
(* (templates_mgr/api.py, schedules/categories.py,                         *)
(* calendar_sync/travel_rules.py, schedules/settings_api.py).              *)
(*                                                                         *)
(* Writers under the User lock are one step.  A travel rule is created and *)
(* patched without it: what such a request read, and when, is kept until   *)
(* it writes.  A refused request changes nothing.                          *)
(***************************************************************************)
EXTENDS Integers, FiniteSets

CONSTANTS
    Slugs, Sink, Seeds, MaxCategories,    \* as in ScheduleStore
    Types,                                \* the slots a template can fill
    Bodies,                               \* bodies of templates that may be submitted
    Windows,                              \* working days that may be asked for
    Themes, Gaps, DefaultPreferences,     \* values of the preferences
    Priorities,                           \* priorities and orders a client may ask for
    MaxRules, MaxTravel,                  \* MAX_RULES_PER_USER, MAX_TRAVEL_RULES_PER_USER
    MaxOrder,                             \* MAX_ORDER
    Requests,                             \* requests that edit travel rules, at most so many at once
    MaxId,                                \* bound on the rows ever created
    None,                                 \* no row, no category, no order asked for
    Unset                                 \* a field that a PATCH does not name

\* The rows of the tables, as far as the lists depend on them: UserPreferences, the
\* blocks of a Template, TravelRule, and what a UserScheduleSettings row must satisfy.
PreferenceRows == [theme : Themes, gap : Gaps]

BlockOK(b) == b \in [start : Int, end : Int, category : Slugs] /\ b.start < b.end

TravelRows == [keyword : BOOLEAN, calendar : BOOLEAN, category : Slugs \union {None}, order : Int]

Ordered(window) == window.start < window.end

\* What is assumed of the constants where their values are not spelled out.
Sized ==
    /\ Sink \in Seeds /\ Seeds \subseteq Slugs /\ IsFiniteSet(Seeds)
    /\ None \notin Slugs \union Int
    /\ Unset \notin Slugs \union Int \union BOOLEAN \union {None}
    /\ Priorities \subseteq Int /\ MaxOrder \in Nat
    /\ DefaultPreferences \in PreferenceRows
    /\ Bodies \subseteq SUBSET [start : Int, end : Int, category : Slugs \union {None}]
    /\ MaxCategories \in Nat /\ MaxCategories >= Cardinality(Seeds)
    /\ MaxRules \in Nat /\ MaxId \in Nat /\ MaxTravel \in Nat \ {0}
    /\ IsFiniteSet(Requests) /\ Requests # {}

VARIABLES
    catalog,        \* sort_order of each category, by slug
    dayWindow,      \* UserScheduleSettings: day_start and day_end
    preferences,    \* UserPreferences, None before the first access
    templates,      \* blocks of each template, by the slot it fills
    rules,          \* priority of each rule, by id
    travel,         \* the TravelRule rows, by id
    editing,        \* requests under way that read travel rules and did not write yet
    raced,          \* history: travel rules written after what their request read had changed
    lastId          \* ids are never used again

vars == <<catalog, dayWindow, preferences, templates, rules, travel, editing, raced, lastId>>

sharedVars == <<catalog, dayWindow, preferences, templates, rules>>
travelVars == <<travel, editing, raced>>

Known == DOMAIN catalog

Idle == [kind |-> "idle"]

Nothing == [x \in {} |-> None]

\* max(...) + 1, or 0 for an empty list.
After(S) == IF S = {} THEN {0} ELSE {n + 1 : n \in {m \in S : \A k \in S : k <= m}}

Put(f, x, v) == [y \in DOMAIN f \union {x} |-> IF y = x THEN v ELSE f[y]]

Without(f, x) == [y \in DOMAIN f \ {x} |-> f[y]]

\* parse_swap_body and the look-up of both rows.
TwoOf(S, a, b) == {a, b} \subseteq S /\ a # b

Exchanged(f, a, b) == [f EXCEPT ![a] = f[b], ![b] = f[a]]

-----------------------------------------------------------------------------
(* Categories: their order, and who names them *)

CreateCategory(slug) ==
    /\ slug \notin Known
    /\ Cardinality(Known) < MaxCategories
    /\ \E n \in After({catalog[s] : s \in Known}) : catalog' = Put(catalog, slug, n)
    /\ UNCHANGED <<dayWindow, preferences, templates, rules, travelVars, lastId>>

SwapCategories(a, b) ==
    /\ TwoOf(Known, a, b)
    /\ catalog' = Exchanged(catalog, a, b)
    /\ UNCHANGED <<dayWindow, preferences, templates, rules, travelVars, lastId>>

ToSink(slug, gone) == IF slug = gone THEN Sink ELSE slug

\* Variant: travel rules keep the category they were saved with.
TravelAsSaved(gone) == travel

TravelRemapped(gone) == [id \in DOMAIN travel |-> [travel[id] EXCEPT !.category = ToSink(@, gone)]]

\* delete_category: templates and travel rules that name it fall to the sink.
DeleteCategory(gone) ==
    /\ gone \in Known \ {Sink}
    /\ catalog' = Without(catalog, gone)
    /\ templates' = [t \in DOMAIN templates |->
                        {[b EXCEPT !.category = ToSink(@, gone)] : b \in templates[t]}]
    /\ travel' = TravelRemapped(gone)
    /\ UNCHANGED <<dayWindow, preferences, rules, editing, raced, lastId>>

-----------------------------------------------------------------------------
(* The window of the day, the preferences, the templates *)

\* schedule_settings PATCH: both ends at once.
SaveSettings(window) ==
    /\ Ordered(window)
    /\ dayWindow' = window
    /\ UNCHANGED <<catalog, preferences, templates, rules, travelVars, lastId>>

Preferences == IF preferences = None THEN DefaultPreferences ELSE preferences

\* get_user_preferences: the first access makes the row.
OpenPreferences ==
    /\ preferences' = Preferences
    /\ UNCHANGED <<catalog, dayWindow, templates, rules, travelVars, lastId>>

\* PATCH writes the fields it names.
PatchPreferences ==
    /\ \/ \E theme \in Themes : preferences' = [Preferences EXCEPT !.theme = theme]
       \/ \E gap \in Gaps : preferences' = [Preferences EXCEPT !.gap = gap]
       \/ \E theme \in Themes, gap \in Gaps : preferences' = [theme |-> theme, gap |-> gap]
    /\ UNCHANGED <<catalog, dayWindow, templates, rules, travelVars, lastId>>

\* A block without a category is one of the sink.
Normalized(body) == {[b EXCEPT !.category = IF @ = None THEN Sink ELSE @] : b \in body}

\* validate_template_blocks, against the catalog and the window under the lock.
ValidBody(body) ==
    /\ \A b \in Normalized(body) :
        /\ b.category \in Known
        /\ dayWindow.start <= b.start /\ b.start < b.end /\ b.end <= dayWindow.end
    /\ \A b, c \in body : b = c \/ b.end <= c.start \/ c.end <= b.start

\* The slot is free: unique_user_template_type.
CreateTemplate(type, body) ==
    /\ type \notin DOMAIN templates
    /\ ValidBody(body)
    /\ templates' = Put(templates, type, Normalized(body))
    /\ UNCHANGED <<catalog, dayWindow, preferences, rules, travelVars, lastId>>

\* PUT: a template may move to the other slot, if that one is free.
UpdateTemplate(from, type, body) ==
    /\ from \in DOMAIN templates
    /\ type = from \/ type \notin DOMAIN templates
    /\ ValidBody(body)
    /\ templates' = Put(Without(templates, from), type, Normalized(body))
    /\ UNCHANGED <<catalog, dayWindow, preferences, rules, travelVars, lastId>>

DeleteTemplate(type) ==
    /\ type \in DOMAIN templates
    /\ templates' = Without(templates, type)
    /\ UNCHANGED <<catalog, dayWindow, preferences, rules, travelVars, lastId>>

-----------------------------------------------------------------------------
(* Planning rules, shown by descending priority, older ones first *)

Above(R, a, b) == R[a] > R[b] \/ (R[a] = R[b] /\ a < b)

\* Variant: equal priorities are ranked by id alone, newest on top.
RankedByAge(R) ==
    [r \in DOMAIN R |->
        Cardinality({x \in DOMAIN R : R[x] < R[r] \/ (R[x] = R[r] /\ x < r)})]

\* _compact_rule_priorities: the number of rules shown below.
Compacted(R) == [r \in DOMAIN R |-> Cardinality({x \in DOMAIN R : Above(R, r, x)})]

\* A rule without a priority goes to the top; every create renumbers the list.
CreateRule(asked) ==
    /\ Cardinality(DOMAIN rules) < MaxRules
    /\ lastId < MaxId
    /\ lastId' = lastId + 1
    /\ \E p \in (IF asked = None THEN After({rules[r] : r \in DOMAIN rules}) ELSE {asked}) :
        rules' = Compacted(Put(rules, lastId', p))
    /\ UNCHANGED <<catalog, dayWindow, preferences, templates, travelVars>>

\* PATCH does not renumber.
PatchRule(r, priority) ==
    /\ r \in DOMAIN rules
    /\ rules' = [rules EXCEPT ![r] = priority]
    /\ UNCHANGED <<catalog, dayWindow, preferences, templates, travelVars, lastId>>

SwapRules(a, b) ==
    /\ TwoOf(DOMAIN rules, a, b)
    /\ rules' = Exchanged(rules, a, b)
    /\ UNCHANGED <<catalog, dayWindow, preferences, templates, travelVars, lastId>>

DeleteRule(r) ==
    /\ r \in DOMAIN rules
    /\ rules' = Compacted(Without(rules, r))
    /\ UNCHANGED <<catalog, dayWindow, preferences, templates, travelVars, lastId>>

-----------------------------------------------------------------------------
(* Travel rules *)

\* At least one of keyword and calendar name, and a category of the catalog or none.
Matches(rule) == rule.keyword \/ rule.calendar

CategoryKnown(slug) == slug = None \/ slug \in Known

\* _clean_order
InRange(order, absent) == order # absent => order <= MaxOrder

\* POST: the body is validated against the catalog ...
StartCreate(q, rule, asked) ==
    /\ editing[q] = Idle
    /\ Matches(rule) /\ CategoryKnown(rule.category) /\ InRange(asked, None)
    /\ editing' = [editing EXCEPT ![q] =
                    [kind |-> "create", stage |-> "validated", rule |-> rule, order |-> asked]]
    /\ UNCHANGED <<sharedVars, travel, raced, lastId>>

UnderCap == Cardinality(DOMAIN travel) < MaxTravel

\* ... then the rules are counted, outside of any lock ...
Admit(q) ==
    /\ editing[q].kind = "create" /\ editing[q].stage = "validated"
    /\ editing' = [editing EXCEPT ![q] = IF UnderCap THEN [@ EXCEPT !.stage = "admitted"] ELSE Idle]
    /\ UNCHANGED <<sharedVars, travel, raced, lastId>>

Clamped(n) == IF n > MaxOrder THEN MaxOrder ELSE n

\* ... a rule without an order goes to the end ...
Place(q) ==
    /\ editing[q].kind = "create" /\ editing[q].stage = "admitted" /\ editing[q].order = None
    /\ \E n \in After({travel[id].order : id \in DOMAIN travel}) :
        editing' = [editing EXCEPT ![q].order = Clamped(n)]
    /\ UNCHANGED <<sharedVars, travel, raced, lastId>>

Row(rule, order) ==
    [keyword |-> rule.keyword, calendar |-> rule.calendar, category |-> rule.category, order |-> order]

\* ... and the row is written.
Insert(q) ==
    /\ editing[q].kind = "create" /\ editing[q].stage = "admitted" /\ editing[q].order # None
    /\ lastId < MaxId
    /\ lastId' = lastId + 1
    /\ travel' = Put(travel, lastId', Row(editing[q].rule, editing[q].order))
    /\ raced' = IF CategoryKnown(editing[q].rule.category) THEN raced ELSE raced \union {lastId'}
    /\ editing' = [editing EXCEPT ![q] = Idle]
    /\ UNCHANGED sharedVars

Said(value, before) == IF value = Unset THEN before ELSE value

Merged(rule, change) ==
    [keyword |-> Said(change.keyword, rule.keyword),
     calendar |-> Said(change.calendar, rule.calendar),
     category |-> Said(change.category, rule.category),
     order |-> Said(change.order, rule.order)]

NamesKnown(change) == change.category = Unset \/ CategoryKnown(change.category)

\* _parse_patch_payload: judged together with the row as it was read.
Acceptable(rule, change) ==
    Matches(Merged(rule, change)) /\ NamesKnown(change) /\ InRange(change.order, Unset)

\* PATCH reads the row and the catalog.  The two reads are one step: a row that
\* changes between them has changed before the write, too.
StartPatch(q, id, change) ==
    /\ editing[q] = Idle
    /\ id \in DOMAIN travel
    /\ Acceptable(travel[id], change)
    /\ editing' = [editing EXCEPT ![q] =
                    [kind |-> "patch", id |-> id, change |-> change, read |-> travel[id]]]
    /\ UNCHANGED <<sharedVars, travel, raced, lastId>>

\* What q read of its row and of the catalog is no longer so.
Outdated(q) == travel[editing[q].id] # editing[q].read \/ ~NamesKnown(editing[q].change)

\* save(update_fields): the named fields of a row that still exists.
SavePatch(q) ==
    /\ editing[q].kind = "patch"
    /\ IF editing[q].id \in DOMAIN travel
       THEN /\ travel' = [travel EXCEPT ![editing[q].id] = Merged(@, editing[q].change)]
            /\ raced' = IF Outdated(q) THEN raced \union {editing[q].id} ELSE raced
       ELSE UNCHANGED <<travel, raced>>
    /\ editing' = [editing EXCEPT ![q] = Idle]
    /\ UNCHANGED <<sharedVars, lastId>>

\* The worker of a request ends before it writes.
Abandon(q) ==
    /\ editing[q] # Idle
    /\ editing' = [editing EXCEPT ![q] = Idle]
    /\ UNCHANGED <<sharedVars, travel, raced, lastId>>

SwapTravel(a, b) ==
    /\ TwoOf(DOMAIN travel, a, b)
    /\ travel' = [travel EXCEPT ![a].order = travel[b].order, ![b].order = travel[a].order]
    /\ UNCHANGED <<sharedVars, editing, raced, lastId>>

DeleteTravel(id) ==
    /\ id \in DOMAIN travel
    /\ travel' = Without(travel, id)
    /\ UNCHANGED <<sharedVars, editing, raced, lastId>>

-----------------------------------------------------------------------------

Init ==
    /\ catalog \in [Seeds -> 0 .. (Cardinality(Seeds) - 1)]
    /\ \A a, b \in Seeds : catalog[a] = catalog[b] => a = b
    /\ dayWindow \in Windows /\ Ordered(dayWindow)
    /\ preferences = None
    /\ templates = Nothing /\ rules = Nothing /\ travel = Nothing
    /\ editing = [q \in Requests |-> Idle]
    /\ raced = {} /\ lastId = 0

CategoryStep ==
    \/ \E slug \in Slugs : CreateCategory(slug) \/ DeleteCategory(slug)
    \/ \E a, b \in Slugs : SwapCategories(a, b)

RowStep ==
    \/ \E window \in Windows : SaveSettings(window)
    \/ OpenPreferences \/ PatchPreferences
    \/ \E type \in Types, body \in Bodies :
        CreateTemplate(type, body) \/ \E from \in Types : UpdateTemplate(from, type, body)
    \/ \E type \in Types : DeleteTemplate(type)

RuleStep ==
    \/ \E asked \in Priorities \union {None} : CreateRule(asked)
    \/ \E r \in DOMAIN rules : DeleteRule(r) \/ \E p \in Priorities : PatchRule(r, p)
    \/ \E a, b \in DOMAIN rules : SwapRules(a, b)

NewRules == [keyword : BOOLEAN, calendar : BOOLEAN, category : Slugs \union {None}]

Changes ==
    [keyword : BOOLEAN \union {Unset}, calendar : BOOLEAN \union {Unset},
     category : Slugs \union {None, Unset}, order : Priorities \union {Unset}]

TravelStep ==
    \/ \E q \in Requests :
        \/ \E rule \in NewRules, asked \in Priorities \union {None} : StartCreate(q, rule, asked)
        \/ Admit(q) \/ Place(q) \/ Insert(q)
        \/ \E id \in DOMAIN travel, change \in Changes : StartPatch(q, id, change)
        \/ SavePatch(q) \/ Abandon(q)
    \/ \E a, b \in DOMAIN travel : SwapTravel(a, b)
    \/ \E id \in DOMAIN travel : DeleteTravel(id)

Next == CategoryStep \/ RowStep \/ RuleStep \/ TravelStep

Spec == Init /\ [][Next]_vars

-----------------------------------------------------------------------------
(* Properties *)

Orders(f) == {f[x] : x \in DOMAIN f}

CreateRequests ==
    [kind : {"create"}, stage : {"validated", "admitted"}, rule : NewRules, order : Int \union {None}]

PatchRequests == [kind : {"patch"}, id : Nat, change : Changes, read : TravelRows]

RequestOK(e) ==
    \/ e = Idle
    \/ e \in CreateRequests /\ InRange(e.order, None)
    \/ e \in PatchRequests /\ InRange(e.change.order, Unset)

TypeOK ==
    /\ Known \subseteq Slugs /\ IsFiniteSet(Known) /\ catalog \in [Known -> Int]
    /\ dayWindow \in Windows
    /\ preferences \in PreferenceRows \union {None}
    /\ DOMAIN templates \subseteq Types
    /\ \A t \in DOMAIN templates : \A b \in templates[t] : BlockOK(b)
    /\ lastId \in 0..MaxId
    /\ DOMAIN rules \subseteq 1..lastId /\ rules \in [DOMAIN rules -> Int]
    /\ DOMAIN travel \subseteq 1..lastId
    /\ travel \in [DOMAIN travel -> TravelRows]
    /\ raced \subseteq 1..lastId
    /\ DOMAIN editing = Requests /\ \A q \in Requests : RequestOK(editing[q])

\* No two categories share a place, so an exchange of places always shows.
PlacesDistinct == \A a, b \in Known : catalog[a] = catalog[b] => a = b

\* A template names categories of the catalog, whatever is deleted or saved meanwhile.
TemplatesNameCategories == \A t \in DOMAIN templates : \A b \in templates[t] : b.category \in Known

\* A travel rule can match an event and names a category of the catalog, unless a
\* request that wrote it was overtaken by another writer.
TravelSound ==
    \A id \in DOMAIN travel \ raced : Matches(travel[id]) /\ CategoryKnown(travel[id].category)

\* An order that is stored may be asked for again.
OrdersAccepted == \A id \in DOMAIN travel : travel[id].order <= MaxOrder

Admitted == {q \in Requests : editing[q].kind = "create" /\ editing[q].stage = "admitted"}

\* Rules keep to their limit; travel rules exceed theirs by at most the requests that
\* were counted together.
CapsHold ==
    /\ Cardinality(DOMAIN rules) <= MaxRules
    /\ Cardinality(Known) <= MaxCategories
    /\ Cardinality(DOMAIN travel) + Cardinality(Admitted) < MaxTravel + Cardinality(Requests)

ListsSound ==
    /\ TypeOK /\ PlacesDistinct /\ TemplatesNameCategories
    /\ TravelSound /\ OrdersAccepted /\ CapsHold

\* Creating or deleting a rule renumbers all of them and reorders none of the others.
RulesKeepOrder ==
    DOMAIN rules' # DOMAIN rules =>
        /\ Orders(rules') = 0 .. (Cardinality(DOMAIN rules') - 1)
        /\ \A a, b \in DOMAIN rules \intersect DOMAIN rules' :
              Above(rules, a, b) <=> Above(rules', a, b)
=============================================================================
