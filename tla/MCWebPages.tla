------------------------------ MODULE MCWebPages ------------------------------
(***************************************************************************)
(* Pages of the web client: the router mounts one of them, and the others  *)
(* have no state.                                                          *)
(***************************************************************************)
EXTENDS AdminBackup, AdminPage, SettingsLists, AccountPage, DataTransfer, ChannelForm,
        SubscriptionForm, IconPicker, DashboardList, RateCache, Appearance

\* The types of channel between which the form differs: a secret among plain fields,
\* a field that is not shown, headers, a choice that hides a field, a field of the server's.
FormTypes == {"smtp", "telegram", "webhook", "napcat", "ntfy"}

Titles == {"backup", "admin", "lists", "account", "transfer", "channels", "form", "icons", "dashboard", "rates", "looks"}

Init ==
    /\ shown \in Titles
    /\ BackupInit /\ AdminInit /\ ListsInit /\ AccountInit /\ TransferInit /\ ChannelInit
    /\ FormInit /\ PickerInit /\ DashboardInit /\ RateInit /\ LooksInit
    /\ shown # "looks" => storedLook.scheme = None /\ storedLook.colours = None
    /\ shown # "rates" => \A p \in Pairs : rateStore[p] = None
    /\ shown # "lists" => sortOf = <<0, 1>>

Still(page, vars) == shown # page => UNCHANGED vars

Next ==
    /\ \/ On("backup") /\ BackupNext
       \/ On("admin") /\ AdminNext
       \/ On("lists") /\ ListsNext
       \/ On("account") /\ AccountNext
       \/ On("transfer") /\ TransferNext
       \/ On("channels") /\ ChannelNext
       \/ On("form") /\ FormNext
       \/ On("icons") /\ PickerNext
       \/ On("dashboard") /\ DashboardNext
       \/ On("rates") /\ RateNext
       \/ On("looks") /\ LooksNext
    /\ Still("backup", backupVars) /\ Still("admin", adminVars) /\ Still("lists", listVars)
    /\ Still("account", accountVars) /\ Still("transfer", transferVars)
    /\ Still("channels", channelVars) /\ Still("form", sfVars) /\ Still("icons", pickerVars)
    /\ Still("dashboard", dashboardVars) /\ Still("rates", rateVars)
    /\ Still("looks", lookVars)

pages == <<shown, backupVars, adminVars, listVars, accountVars, transferVars, channelVars, sfVars,
           pickerVars, dashboardVars, rateVars, lookVars>>

Spec == Init /\ [][Next]_pages
=============================================================================
