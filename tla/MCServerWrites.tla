---------------------------- MODULE MCServerWrites ----------------------------
(***************************************************************************)
(* Parts of the server that change what they have read some statements     *)
(* before, each with the clients that drive it.  They share nothing, and a *)
(* behaviour is of one of them.                                            *)
(***************************************************************************)
EXTENDS EmailCodes, TwoFactor, ChannelStore, McpWrites, IconFiles, BrowserSession, TLC

CONSTANTS p1, p2, k1, k2, a, b, c1

Symmetric == Permutations(Tabs)

Parts == {"codes", "totp", "channels", "mcp", "icons", "session"}

Init == shown \in Parts /\ CodesInit /\ TotpInit /\ StoreInit /\ McpInit /\ IconsInit /\ SessionInit

Still(part, vars) == shown # part => UNCHANGED vars

Next ==
    /\ \/ On("codes") /\ CodesNext
       \/ On("totp") /\ TotpNext
       \/ On("channels") /\ StoreNext
       \/ On("mcp") /\ McpNext
       \/ On("icons") /\ IconsNext
       \/ On("session") /\ SessionNext
    /\ Still("codes", codeVars) /\ Still("totp", totpVars) /\ Still("channels", storeVars)
    /\ Still("mcp", mcpVars) /\ Still("icons", iconVars)
    /\ Still("session", sessionVars)

parts == <<shown, codeVars, totpVars, storeVars, mcpVars, iconVars, sessionVars>>

Spec == Init /\ [][Next]_parts
=============================================================================
