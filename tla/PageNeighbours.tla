---------------------------- MODULE PageNeighbours ----------------------------
(***************************************************************************)
(* What runs beside the schedule page, in one specification: the tokens of *)
(* a Google account and the lists the server caches, the lists and the     *)
(* import dialog of the page, the account and the lists of the settings    *)
(* page, the rate limiter and the focus window.  They share no state, so a *)
(* step is a step of one of them.                                          *)
(***************************************************************************)
EXTENDS Naturals

CONSTANTS
    Reads,                                            \* GoogleTokens, IntegrationAccount
    MaxToken, MaxStamp,                               \* GoogleTokens
    Kinds, Requests, Secrets, Zones, Items, LastDay, MaxVersion,    \* IntegrationCache
    Loads, Calendar, Contexts, Tasks, MaxAccount,     \* DatedResource
    MaxChanges,                                       \* IntegrationAccount
    Calls, Limit, Attempts, MaxWindows, MaxCount,     \* RateLimit
    Clicks, MaxImports,                               \* EventImport
    Users, Asks, MaxEpoch,                            \* FocusWindow
    Slugs, Sink, Seeds, MaxCategories, Types, Bodies, Spans, Themes, Gaps,
    DefaultPreferences, Priorities, MaxRules, MaxTravel, MaxOrder, Edits, MaxId, Unset,
                                                      \* SettingsLists
    Nil                                               \* None of each

VARIABLES
    row, session, drawn, token, accepted, eventRead, eventCache, lost,
    kind, accountRow, connected, stamp, zone, today, openItems, cache, request, acked,
    date, context, key, verdict, loading, rows, pending, completed, load, check, post,
    listVisit, account, open, told,
    changes, shown, operation, statusRead, accountWrite,
    counter, call, windows, admitted,
    importDay, signedIn, ready, failed, rulesGeneration, fetch, sent, click, dialog,
    ask, epoch, pendingOpen, pipWindow, openWindows, openError, intent, storedShouldBeOpen,
    user, page, generation, retained,
    catalog, dayWindow, preferences, templates, rules, travel, editing, raced, lastId

Tokens ==
    INSTANCE GoogleTokens
        WITH stamp <- drawn, read <- eventRead, cache <- eventCache, None <- Nil

Server ==
    INSTANCE IntegrationCache
        WITH account <- accountRow, open <- openItems, MaxStamp <- MaxVersion, None <- Nil

Lists == INSTANCE DatedResource WITH visit <- listVisit, Dates <- Calendar, None <- Nil

Settings ==
    INSTANCE IntegrationAccount
        WITH account <- changes, read <- statusRead, write <- accountWrite, None <- Nil

Limiter == INSTANCE RateLimit WITH None <- Nil

Importer ==
    INSTANCE EventImport
        WITH date <- importDay, generation <- rulesGeneration, MaxGeneration <- MaxImports,
             Dates <- Calendar, None <- Nil

Kept == INSTANCE SettingsLists WITH Windows <- Spans, Requests <- Edits, None <- Nil

Focus == INSTANCE FocusWindow WITH stored <- intent, windows <- openWindows, None <- Nil

NeighboursInit ==
    /\ Tokens!Init /\ Server!Init /\ Lists!Init /\ Settings!Init
    /\ Limiter!Init /\ Importer!Init /\ Focus!Init /\ Kept!Init

-----------------------------------------------------------------------------
(* One of them moves *)

tokenVars == <<row, session, drawn, token, accepted, eventRead, eventCache, lost>>
cacheVars == <<kind, accountRow, connected, stamp, zone, today, openItems, cache, request, acked>>
listVars ==
    <<date, context, key, verdict, loading, rows, pending, completed, load, check, post,
      listVisit, account, open, told>>
settingsVars == <<changes, shown, operation, statusRead, accountWrite>>
limiterVars == <<counter, call, windows, admitted>>
importVars == <<importDay, signedIn, ready, failed, rulesGeneration, fetch, sent, click, dialog>>
focusVars ==
    <<ask, epoch, pendingOpen, pipWindow, openWindows, openError, intent, storedShouldBeOpen,
      user, page, generation, retained>>
keptVars == <<catalog, dayWindow, preferences, templates, rules, travel, editing, raced, lastId>>

clientVars == <<listVars, settingsVars, importVars, focusVars>>
serverVars == <<tokenVars, cacheVars, limiterVars, keptVars>>
neighbourVars == <<clientVars, serverVars>>

TokensStep == Tokens!Next /\ UNCHANGED <<clientVars, cacheVars, limiterVars, keptVars>>
ServerStep == Server!Next /\ UNCHANGED <<clientVars, tokenVars, limiterVars, keptVars>>
LimiterStep == Limiter!Next /\ UNCHANGED <<clientVars, tokenVars, cacheVars, keptVars>>
KeptStep == Kept!Next /\ UNCHANGED <<clientVars, tokenVars, cacheVars, limiterVars>>
ListsStep == Lists!Next /\ UNCHANGED <<serverVars, settingsVars, importVars, focusVars>>
SettingsStep == Settings!Next /\ UNCHANGED <<serverVars, listVars, importVars, focusVars>>
ImporterStep == Importer!Next /\ UNCHANGED <<serverVars, listVars, settingsVars, focusVars>>
FocusStep == Focus!Next /\ UNCHANGED <<serverVars, listVars, settingsVars, importVars>>

NeighboursNext ==
    \/ TokensStep \/ ServerStep \/ LimiterStep \/ KeptStep
    \/ ListsStep \/ SettingsStep \/ ImporterStep \/ FocusStep

NeighboursSpec == NeighboursInit /\ [][NeighboursNext]_neighbourVars

-----------------------------------------------------------------------------
(* What they promise *)

\* Stored credentials are the ones the provider accepts, and cached lists answer the present
\* account's query as the provider would (get_valid_access_token, versioned_key).
AccountsTrue == Tokens!AccountsTrue /\ Server!AccountsTrue

\* The lists on the screen are those of the shown day, without completed tasks, and the
\* spinner is that of the newest read (useDatedResource, useTaskCompletion).
ListTrue == Lists!ListTrue

\* No window of the limiter admits more calls than its limit (check_rate_limit).
WithinBudget == Limiter!WithinBudget

\* The import dialog is that of the shown day, and whoever waits for travel rules waits for
\* a request under way (useEventImport).
ImportTrue == Importer!ImportTrue

\* The focus window in use is the only one open, it can always be asked for again, and
\* neither it nor the retained day survives its account (useFocusIndicator).
WindowSound == Focus!WindowSound

\* What the page and the settings page say of an account is never replaced by what is known
\* to be older (believed checks of useDatedResource, useIntegrationAccount).
AccountNotOlder == Lists!NotOlderVerdict /\ Settings!NotOlderAccount

NeverOlder == [][AccountNotOlder]_neighbourVars

\* The lists of the settings page are in order: places of categories are distinct, templates
\* name categories of the catalog, so do travel rules that no other writer overtook, and no
\* list outgrows its limit by more than requests counted together (delete_category,
\* travel_rules_collection, create_rule).
ListsSound == Kept!ListsSound

\* Creating or deleting a planning rule numbers them from 0 without gaps and reorders none of
\* the others (_compact_rule_priorities).
RulesInOrder == [][Kept!RulesKeepOrder]_neighbourVars
=============================================================================
