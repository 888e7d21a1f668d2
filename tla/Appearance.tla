----------------------------- MODULE Appearance -----------------------------
(***************************************************************************)
(* How the client looks (lib/theme.ts, the general tab of the settings)    *)
(* and a switch of what the dashboard displays (lib/display-preferences.ts,*)
(* four that behave alike).  Both are kept in localStorage, which two tabs *)
(* share.  Another tab is told of a switch but not of a change of looks;   *)
(* every tab is told of the system's colours.                              *)
(***************************************************************************)
EXTENDS Screens, Naturals

CONSTANT MaxTouches    \* bound on what the user changes

LookTabs == {"left", "right"}
Themes == {"light", "dark", "system"}
Schemes == {"default", "ocean", "custom"}    \* sunset and forest are further oceans
Colours == {"standard", "own"}               \* the four custom colours at once

\* What is not set names neither a scheme nor colours.
ASSUME LooksAssumption == None \notin Schemes \cup Colours

VARIABLES
    systemTone,       \* prefers-color-scheme
    storedLook,       \* localStorage: theme, scheme and colours, None when not set
    storedSwitch,
    dark,             \* each tab's document: the class of its root element ...
    overrides,        \* ... and its style, None when the stylesheet's own colours show
    route,            \* "settings", "dashboard" or elsewhere
    pageLook,         \* what the settings page took up when it was mounted, and set since
    dashboardSwitch,
    listening,        \* dashboards whose effect has run
    signals,          \* events on their way: <<tab, "system">>, <<tab, "switch">>
    \* history
    touches,
    behind,           \* tabs that do not show what another one has stored since
    deaf,             \* dashboards that missed an event, between their mounting and the effect
    outdated,         \* settings pages mounted before another tab stored a look
    picked            \* the custom colours that the user chose last

paint == <<dark, overrides>>
settingsState == <<pageLook, outdated>>
dashboardTabs == <<dashboardSwitch, listening, deaf>>
lookVars == <<systemTone, storedLook, storedSwitch, paint, route, settingsState, dashboardTabs, signals,
              touches, behind, picked>>

-----------------------------------------------------------------------------
\* What is not a theme, a scheme or a colour in the store is taken as not set.
GetTheme(look) == IF look.theme \in Themes THEN look.theme ELSE "system"
GetScheme(look) == IF look.scheme \in Schemes THEN look.scheme ELSE "default"
ParseColours(look) == IF look.colours \in Colours THEN look.colours ELSE "standard"

Taken(look) == [theme |-> GetTheme(look), scheme |-> GetScheme(look), colours |-> ParseColours(look)]

ResolvedTone(theme) == IF theme = "system" THEN systemTone ELSE theme

\* The variables of the style: those of the scheme, in the tone of the theme.
Styles(theme, scheme, colours) ==
    IF scheme = "default" THEN None
    ELSE <<scheme, ResolvedTone(theme), IF scheme = "custom" THEN colours ELSE "standard">>

\* A theme toggles the class and paints the stored scheme in it.
ApplyTheme(tab, theme) ==
    /\ storedLook' = [storedLook EXCEPT !.theme = theme]
    /\ dark' = [dark EXCEPT ![tab] = ResolvedTone(theme) = "dark"]
    /\ overrides' = [overrides EXCEPT ![tab] = Styles(theme, GetScheme(storedLook), ParseColours(storedLook))]

\* A scheme is painted in the tone of the stored theme.
Bug_ApplyScheme(tab, scheme, colours) ==
    LET kept == IF scheme = "custom" THEN colours ELSE None
    IN  /\ storedLook' = [storedLook EXCEPT !.scheme = scheme, !.colours = kept]
        /\ overrides' = [overrides EXCEPT ![tab] = Styles(GetTheme(storedLook), scheme, kept)]
        /\ UNCHANGED dark

ApplyScheme(tab, scheme, colours) ==
    /\ storedLook' = [storedLook EXCEPT !.scheme = scheme, !.colours = colours]
    /\ overrides' = [overrides EXCEPT ![tab] = Styles(GetTheme(storedLook), scheme, colours)]
    /\ UNCHANGED dark

-----------------------------------------------------------------------------
Current(tab) == tab \notin behind /\ <<tab, "system">> \notin signals

Others(tab) == LookTabs \ {tab}

Touch == touches < MaxTouches /\ touches' = touches + 1

\* A change of looks in a settings page.
Restyles(tab) ==
    /\ route[tab] = "settings" /\ Touch
    /\ outdated' = outdated \cup {t \in Others(tab) : route[t] = "settings"}
    /\ UNCHANGED <<systemTone, storedSwitch, route, dashboardTabs, signals>>

ChooseTheme(tab, theme) ==
    /\ Restyles(tab)
    /\ ApplyTheme(tab, theme)
    /\ pageLook' = [pageLook EXCEPT ![tab].theme = theme]
    /\ behind' = (behind \ {tab}) \cup Others(tab)
    /\ UNCHANGED picked

\* The page passes the colours that it holds.
ChooseScheme(tab, scheme) ==
    /\ Restyles(tab)
    /\ ApplyScheme(tab, scheme, pageLook[tab].colours)
    /\ pageLook' = [pageLook EXCEPT ![tab].scheme = scheme]
    /\ behind' = behind \cup Others(tab)
    /\ UNCHANGED picked

\* A colour, or all of them back to the standard; shown for the custom scheme only.
PickColours(tab, colours) ==
    /\ pageLook[tab].scheme = "custom"
    /\ Restyles(tab)
    /\ ApplyScheme(tab, "custom", colours)
    /\ pageLook' = [pageLook EXCEPT ![tab].colours = colours]
    /\ behind' = behind \cup Others(tab)
    /\ picked' = colours

SetDisplay(enabled) == storedSwitch' = enabled

\* The switch: the browser tells the other tabs, whose dashboards read the store again.
FlipSwitch(tab) ==
    /\ route[tab] = "settings" /\ Touch
    /\ SetDisplay(~storedSwitch)
    /\ signals' = signals \cup {<<t, "switch">> : t \in Others(tab) \cap listening}
    /\ deaf' = deaf \cup {t \in Others(tab) : route[t] = "dashboard" /\ t \notin listening}
    /\ UNCHANGED <<systemTone, storedLook, paint, route, settingsState, dashboardSwitch, listening,
                   behind, picked>>

SwitchArrives(tab) ==
    /\ <<tab, "switch">> \in signals /\ signals' = signals \ {<<tab, "switch">>}
    /\ dashboardSwitch' = [dashboardSwitch EXCEPT ![tab] = storedSwitch]
    /\ UNCHANGED <<systemTone, storedLook, storedSwitch, paint, route, settingsState, listening, deaf,
                   touches, behind, picked>>

-----------------------------------------------------------------------------
\* The system goes from light to dark or back, and every tab hears of it in its time.
SystemChanges ==
    /\ Touch
    /\ systemTone' = IF systemTone = "dark" THEN "light" ELSE "dark"
    /\ signals' = signals \cup {<<t, "system">> : t \in LookTabs}
    /\ UNCHANGED <<storedLook, storedSwitch, paint, route, settingsState, dashboardTabs, behind, picked>>

SystemArrives(tab) ==
    /\ <<tab, "system">> \in signals /\ signals' = signals \ {<<tab, "system">>}
    /\ IF GetTheme(storedLook) = "system"
       THEN ApplyTheme(tab, "system") /\ behind' = behind \ {tab}
       ELSE UNCHANGED <<storedLook, paint, behind>>
    /\ UNCHANGED <<systemTone, storedSwitch, route, settingsState, dashboardTabs, touches, picked>>

\* The document is loaded again, which is of interest when it does not show what is stored.
InitTheme(tab) ==
    /\ route[tab] = "away" /\ ~Current(tab)
    /\ ApplyTheme(tab, GetTheme(storedLook))
    /\ behind' = behind \ {tab}
    /\ signals' = signals \ {<<tab, "system">>}
    /\ UNCHANGED <<systemTone, storedSwitch, route, settingsState, dashboardTabs, touches, picked>>

Visit(tab, page) == route[tab] # page /\ route' = [route EXCEPT ![tab] = page]

OpenSettings(tab) ==
    /\ Visit(tab, "settings")
    /\ pageLook' = [pageLook EXCEPT ![tab] = Taken(storedLook)]
    /\ outdated' = outdated \ {tab}
    /\ listening' = listening \ {tab} /\ deaf' = deaf \ {tab} /\ signals' = signals \ {<<tab, "switch">>}
    /\ UNCHANGED <<systemTone, storedLook, storedSwitch, paint, dashboardSwitch, touches, behind, picked>>

OpenDashboard(tab) ==
    /\ Visit(tab, "dashboard")
    /\ dashboardSwitch' = [dashboardSwitch EXCEPT ![tab] = storedSwitch]
    /\ outdated' = outdated \ {tab} /\ pageLook' = [pageLook EXCEPT ![tab] = None]
    /\ UNCHANGED <<systemTone, storedLook, storedSwitch, paint, listening, deaf, signals, touches, behind,
                   picked>>

\* The effect of the dashboard, some time after its first rendering.
Listen(tab) ==
    /\ route[tab] = "dashboard" /\ tab \notin listening
    /\ listening' = listening \cup {tab}
    /\ UNCHANGED <<systemTone, storedLook, storedSwitch, paint, route, settingsState, dashboardSwitch, deaf,
                   signals, touches, behind, picked>>

Leave(tab) ==
    /\ Visit(tab, "away")
    /\ pageLook' = [pageLook EXCEPT ![tab] = None] /\ outdated' = outdated \ {tab}
    /\ listening' = listening \ {tab} /\ deaf' = deaf \ {tab} /\ signals' = signals \ {<<tab, "switch">>}
    /\ UNCHANGED <<systemTone, storedLook, storedSwitch, paint, dashboardSwitch, touches, behind, picked>>

\* Both documents have been loaded, from a store without a look or with what an older
\* version left in it.
LooksInit ==
    /\ systemTone = "light" /\ storedSwitch = FALSE
    /\ storedLook \in [theme : {"system"}, scheme : {None, "retired"}, colours : {None, "retired"}]
    /\ dark = [t \in LookTabs |-> FALSE] /\ overrides = [t \in LookTabs |-> None]
    /\ route = [t \in LookTabs |-> "away"] /\ pageLook = [t \in LookTabs |-> None]
    /\ dashboardSwitch = [t \in LookTabs |-> FALSE] /\ listening = {} /\ signals = {}
    /\ touches = 0 /\ behind = {} /\ deaf = {} /\ outdated = {} /\ picked = "standard"

LooksNext ==
    \/ SystemChanges
    \/ \E tab \in LookTabs :
          \/ \E theme \in Themes : ChooseTheme(tab, theme)
          \/ \E scheme \in Schemes : ChooseScheme(tab, scheme)
          \/ \E colours \in Colours, t \in {tab} \cap {u \in LookTabs : pageLook[u] # None} :
                PickColours(t, colours)
          \/ FlipSwitch(tab) \/ SwitchArrives(tab) \/ SystemArrives(tab)
          \/ InitTheme(tab) \/ OpenSettings(tab) \/ OpenDashboard(tab) \/ Listen(tab) \/ Leave(tab)

-----------------------------------------------------------------------------
\* theme.ts:259-356: a tab shows the stored theme and the stored scheme, its class and
\* its style in one tone, whichever of them was changed first and when the system's
\* colours change; a tab is behind only once another one has stored a look since.
LooksAsStored ==
    \A tab \in LookTabs : Current(tab) =>
        LET look == Taken(storedLook)
        IN  /\ dark[tab] <=> ResolvedTone(look.theme) = "dark"
            /\ overrides[tab] = Styles(look.theme, look.scheme, look.colours)

\* settings-page.tsx:92-116: the colours that the user chose last are the stored ones,
\* whatever schemes are tried afterwards, as long as no settings page works on colours
\* from before another tab's choice.
ColoursSurvive ==
    [][LET colours == ParseColours(storedLook')
       IN  colours # ParseColours(storedLook) =>
              picked' = colours \/ \E tab \in outdated : pageLook[tab].colours = colours]_lookVars

\* dashboard-page.tsx:362-379: a dashboard displays by the stored switch, once the
\* events on their way have arrived, unless it missed one while it was mounting.
DashboardFollows ==
    \A tab \in LookTabs :
        route[tab] = "dashboard" /\ tab \notin deaf /\ <<tab, "switch">> \notin signals =>
            dashboardSwitch[tab] = storedSwitch

\* What a tab shows is what is stored, and of that nothing is lost by looking at it.
LooksAgree ==
    []LooksAsStored /\ []DashboardFollows /\ ColoursSurvive
=============================================================================
