---------------------------- MODULE MCPageSession ----------------------------
(***************************************************************************)
(* The schedule page and its neighbours for TLC, side by side: they share  *)
(* no state, so a behaviour is about one of them, its part, explored       *)
(* within one of its small instances, while the others stay as they began. *)
(***************************************************************************)
EXTENDS SchedulePage, PageNeighbours, TLC

CONSTANTS FirstDate, FirstContext

VARIABLES
    part,        \* what the behaviour is about
    instance     \* and within which of its instances

SomeItems ==
    {[source |-> "todoist", name |-> "overdue", due |-> [z \in Zones |-> 0], daily |-> FALSE],
     [source |-> "habitica", name |-> "daily", due |-> [z \in Zones |-> None], daily |-> TRUE],
     [source |-> "caldav", name |-> "late", due |-> [z \in Zones |-> IF z = "east" THEN 1 ELSE 0],
      daily |-> FALSE]}

Span(start, end) == [start |-> start, end |-> end]

SomeSpans == {Span(0, 1), Span(0, 2)}

Planned(start, category) == [start |-> start, end |-> start + 1, category |-> category]

SomeBodies == {{Planned(0, None)}, {Planned(0, "gym"), Planned(1, "gym")}}

UsualPreferences == [theme |-> "classic", gap |-> 0]

-----------------------------------------------------------------------------
(* The page: a long history, two writers, two days, a return to a day *)

Busy == {s \in Slots : write[s] # Idle}

Used == {d \in Dates : Revision(d) > 0 \/ d = tab.date \/ (visit # None /\ visit.date = d)}

AtMost(n) == \A d \in Dates : Revision(d) <= n

OneMove == tab.gen = 0 \/ (tab.gen = 1 /\ visit = None)

\* A long history of one page with one writer at a time.
LongHistory ==
    tab.gen = 0 /\ visit = None /\ Cardinality(Busy) <= 1 /\ Cardinality(Used) <= 1

\* Two writes in flight on one day, of the page and of the one before it.
TwoWriters ==
    /\ OneMove /\ AtMost(1) /\ Cardinality(Used) <= 1 /\ tab.waiting = 0
    /\ Cardinality(tab.reads) <= 2

\* One write and one read in flight, and navigation between days.
TwoDays ==
    /\ OneMove /\ AtMost(1) /\ Cardinality(Busy) <= 1 /\ tab.waiting = 0
    /\ Cardinality({d \in Dates : Revision(d) > 0}) <= 1
    /\ Cardinality(tab.reads) <= 1

\* A day is left and visited again by the same page, while others write to it.
Return ==
    /\ tab.live /\ tab.born = 0 /\ tab.scope = 0 /\ tab.reads = {}
    /\ AtMost(2) /\ Cardinality(Busy) <= 1 /\ tab.waiting = 0
    /\ visit # None \/ tab.gen = 1 => Busy = {}

-----------------------------------------------------------------------------
(* The cache: two requests about one day, or one over two days and zones *)

AsksToday(r) == request[r].phase = "loaded" => request[r].date = 0

Accounts ==
    /\ kind # "habitica" /\ zone = "west"
    /\ \A z \in Zones : today[z] = 0
    /\ \A r \in Requests : AsksToday(r)

Clock ==
    /\ Cardinality({r \in Requests : ~Server!Free(r)}) <= 1
    /\ stamp <= 1 /\ Cardinality(DOMAIN cache) <= 2

(* The lists: two days of one account, accounts that come and go, two zones *)

OneAccount == account = 1
FirstDay == date = FirstDate
FirstZone == context = FirstContext

(* The lists of the settings page: planning rules, what templates name, the preferences,
   and travel rules, whose writers overlap *)

NoTravel == travel = << >> /\ \A e \in Edits : editing[e] = Kept!Idle

Narrow == DOMAIN catalog = Seeds /\ catalog[Sink] = 0 /\ dayWindow.end = 1

RulesOnly == NoTravel /\ Narrow /\ templates = << >> /\ preferences = Nil

PreferencesOnly == NoTravel /\ Narrow /\ templates = << >> /\ rules = << >>

TemplatesOnly ==
    NoTravel /\ rules = << >> /\ preferences = Nil /\ \A s \in DOMAIN catalog : catalog[s] <= 2

\* New travel rules name everything, patches take one name away or set the one category.
FewEdits ==
    \A e \in Edits :
        /\ editing[e].kind = "create" =>
            editing[e].rule = [keyword |-> TRUE, calendar |-> TRUE, category |-> "gym"]
        /\ editing[e].kind = "patch" =>
            /\ TRUE \notin {editing[e].change.keyword, editing[e].change.calendar}
            /\ editing[e].change.category \in {"gym", Unset} /\ editing[e].change.order = Unset
            /\ FALSE \in {editing[e].change.keyword, editing[e].change.calendar}
                => editing[e].change.category = Unset

TravelOnly ==
    /\ templates = << >> /\ rules = << >> /\ preferences = Nil
    /\ catalog[Sink] = 0 /\ dayWindow.end = 1 /\ FewEdits

\* Two requests create rules, or any two edit the only one.
Creates == TravelOnly /\ lastId <= 2 /\ \A e \in Edits : editing[e].kind # "patch"
Patches == TravelOnly /\ lastId <= 1

Within ==
    CASE instance = "history" -> LongHistory
      [] instance = "writers" -> TwoWriters
      [] instance = "days" -> TwoDays
      [] instance = "return" -> Return
      [] instance = "accounts" -> Accounts
      [] instance = "clock" -> Clock
      [] instance = "list days" -> OneAccount /\ FirstZone
      [] instance = "list accounts" -> FirstDay /\ FirstZone
      [] instance = "list zones" -> OneAccount /\ FirstDay
      [] instance = "rules" -> RulesOnly
      [] instance = "preferences" -> PreferencesOnly
      [] instance = "templates" -> TemplatesOnly
      [] instance = "creates" -> Creates
      [] instance = "patches" -> Patches
      [] instance = "all" -> TRUE

Instances ==
    [page |-> {"history", "writers", "days", "return"},
     server |-> {"accounts", "clock"},
     lists |-> {"list days", "list accounts", "list zones"},
     kept |-> {"rules", "preferences", "templates", "creates", "patches"}]

-----------------------------------------------------------------------------
(* Side by side *)

\* How the parts begin that a behaviour is not about: one state each.
PageRests == part # "page" => tab.date = FirstDate
ServerRests == part # "server" => kind = "todoist" /\ zone = "west"
ListsRest == part # "lists" => FirstDay /\ FirstZone /\ check # Lists!Idle
ImporterRests == part # "importer" => importDay = FirstDate /\ ready
FocusRests == part # "focus" => user = Nil
KeptRests == dayWindow.end = 1 /\ catalog[Sink] = 0

MCInit ==
    /\ part \in {"page", "tokens", "server", "lists", "settings", "limiter", "importer", "focus", "kept"}
    /\ instance \in (IF part \in DOMAIN Instances THEN Instances[part] ELSE {"all"})
    /\ Init /\ NeighboursInit
    /\ PageRests /\ ServerRests /\ ListsRest /\ ImporterRests /\ FocusRests /\ KeptRests
    /\ Within

MCNext ==
    /\ UNCHANGED <<part, instance>>
    /\ \/ part = "page" /\ Next /\ UNCHANGED neighbourVars
       \/ part = "tokens" /\ TokensStep /\ UNCHANGED vars
       \/ part = "server" /\ ServerStep /\ UNCHANGED vars
       \/ part = "lists" /\ ListsStep /\ UNCHANGED vars
       \/ part = "settings" /\ SettingsStep /\ UNCHANGED vars
       \/ part = "limiter" /\ LimiterStep /\ UNCHANGED vars
       \/ part = "importer" /\ ImporterStep /\ UNCHANGED vars
       \/ part = "focus" /\ FocusStep /\ UNCHANGED vars
       \/ part = "kept" /\ KeptStep /\ UNCHANGED vars
    /\ Within'

MCSpec == MCInit /\ [][MCNext]_<<part, instance, vars, neighbourVars>>

MCSymmetry == Permutations(Reads) \union Permutations(Secrets)
=============================================================================
