----------------------------- MODULE Preferences -----------------------------
(***************************************************************************)
(* The settings page (src/foo_sbs/preferences.cpp) with the plug-in        *)
(* (Plugin) behind it: what the controls show, what the settings say, and  *)
(* what the servers were started with.  A server's thread reads its port   *)
(* when it constructs the server, some time after the settings were        *)
(* applied.                                                                *)
(***************************************************************************)
EXTENDS Plugin

CONSTANTS
    Ports,                 \* ports one may enter
    default_cfg_slim_port, default_cfg_http_port

ASSUME PortAssumption == {default_cfg_slim_port, default_cfg_http_port} \subseteq Ports

VARIABLES
    cfg,      \* cfg_slim_port, cfg_http_port and cfg_bps; cfg_enable is Plugin's
    shown,    \* is there a page?
    box,      \* its controls
    told,     \* does the host show that there is something to apply?
    bound     \* the port each server was constructed with

pageVars == <<cfg, shown, box, told, bound>>
prefVars == <<vars, pageVars>>

Settings == [slim_port : Ports, http_port : Ports, bps : {0, 1}]
Box == [slim_port : Ports, http_port : Ports, bps : {0, 1}, enable : BOOLEAN]

\* What the controls show of the settings, and the settings they make.
Controls(settings, enable) ==
    [slim_port |-> settings.slim_port, http_port |-> settings.http_port,
     bps |-> settings.bps, enable |-> enable]
SettingsOf(b) == [slim_port |-> b.slim_port, http_port |-> b.http_port, bps |-> b.bps]

Defaults == [slim_port |-> default_cfg_slim_port, http_port |-> default_cfg_http_port,
             bps |-> 1, enable |-> TRUE]

\* No server has been constructed: any port will do.
Unbound == [s \in Server |-> default_cfg_slim_port]

\* "default" ports before anything was applied, else what was saved last.
PrefInit ==
    /\ Init
    /\ cfg \in Settings
    /\ shown = FALSE /\ box = Defaults /\ told = FALSE
    /\ bound = Unbound

HasChanged == box # Controls(cfg, cfg_enable)

\* on_state_changed: the host asks get_state at once.
OnChanged == told' = HasChanged'

-----------------------------------------------------------------------------
(* The page; the host's thread calls it when it is not in the plug-in. *)

PageCalled == main = Idle /\ UNCHANGED <<vars, cfg, bound>>

\* The host opens the page (OnInitDialog) and asks for its state.
OnInitDialog ==
    /\ ~shown /\ shown' = TRUE
    /\ box' = Controls(cfg, cfg_enable)
    /\ PageCalled
    /\ OnChanged

\* The controls go with the page, and what the host was told of them.
PageGone == shown' = FALSE /\ box' = Defaults /\ told' = FALSE

PageClosed == shown /\ PageGone /\ PageCalled

\* OnFieldChange, OnSelectionChange, OnButtonClick, after one control changed.
OnEdit ==
    /\ shown
    /\ \/ \E p \in Ports : box' \in {[box EXCEPT !.slim_port = p], [box EXCEPT !.http_port = p]}
       \/ box' \in {[box EXCEPT !.bps = 1 - @], [box EXCEPT !.enable = ~@]}
    /\ PageCalled /\ UNCHANGED shown
    /\ OnChanged

PageReset ==
    /\ shown
    /\ box' = Defaults
    /\ PageCalled /\ UNCHANGED shown
    /\ OnChanged

\* apply up to g_stop_server; the host offers it when there is something to.
PageApply ==
    /\ shown /\ told
    /\ Apply(box.enable)
    /\ cfg' = SettingsOf(box)
    /\ UNCHANGED <<shown, box, told, bound>>

\* The rest of apply.
PageApplied == ApplyEnds /\ UNCHANGED <<cfg, shown, box, bound>> /\ OnChanged

\* A server's thread reads the port.  Mutant: the slim server takes the other.
PortOf_Swapped(s) == cfg.http_port
PortOf(s) == IF s = "slim" THEN cfg.slim_port ELSE cfg.http_port

PageConstruct(s) ==
    /\ Construct(s)
    /\ bound' = [bound EXCEPT ![s] = PortOf(s)]
    /\ UNCHANGED <<cfg, shown, box, told>>

\* After a crash the settings are those saved last.
PageCrash ==
    /\ Crash
    /\ cfg' \in Settings
    /\ PageGone
    /\ bound' = Unbound

\* The other steps of the plug-in.
Others ==
    \/ OnInit \/ QuitEnds \/ OnQuit \/ Callback
    \/ \E s \in Server : StopServer(s) \/ Join(s)
    \/ \E s \in Server : Lock(s) \/ Unlock(s) \/ HandleStop(s) \/ RunReturns(s) \/ Delete(s) \/ Players(s)

PrefNext ==
    \/ /\ fault = "none"
       /\ \/ PageApply \/ PageApplied \/ PageCrash
          \/ \E s \in Server : PageConstruct(s)
          \/ Others /\ UNCHANGED pageVars
    \/ fault = "none" /\ (OnInitDialog \/ PageClosed \/ OnEdit \/ PageReset)

PrefSpec == PrefInit /\ [][PrefNext]_prefVars

\* The page owes nothing.
PrefFairSpec == PrefSpec /\ Fairness

-----------------------------------------------------------------------------

Up(s) == pointer[s] = "live"

\* "our currently shown values now match the settings so the apply button can be
\* disabled" (preferences.cpp:84): when the host has nothing to apply, the page
\* shows what runs: both servers or none, on the ports it shows.  But for a
\* server that ended by itself after a failed accept: it still shows as enabled,
\* and there is nothing to apply that would start it again.
ShownRuns ==
    shown /\ ~told /\ main = Idle /\ (\A s \in Server : ~NotYet(s)) =>
        \A s \in Server :
            /\ Up(s) => box.enable
            /\ box.enable => Up(s) \/ EndedAlone(s)
            /\ Up(s) => bound[s] = IF s = "slim" THEN box.slim_port ELSE box.http_port

=============================================================================
