-------------------------------- MODULE MCHost --------------------------------
(***************************************************************************)
(* The services around the daemon, one at a time: part says which of them   *)
(* this behaviour is about, and the others stay as they are.                *)
(***************************************************************************)
EXTENDS LanListener, WindowsCapture, MacCapture, RawInputCapture, HidCapture, Discovery,
        Inventories, DisplayMap, RuntimeProcess, KeyPath, PointerPath, EventRate, ConfigStore,
        Clipboard, Trust, DiagnosticsRelay

VARIABLE part

Parts == {"listener", "windows", "mac", "raw", "hid", "discovery", "inventory", "map", "runtime",
          "keys", "moves", "meter", "store", "clip", "trust", "relay"}

serviceVars == <<listenerVars, supervisorVars, win, hook, mac, tap, rawVars, hidVars, discoveryVars,
                 inventoryVars, mapVars, runtimeVars>>

\* The modules without liveness, kept together.
edgeVars == <<keyVars, pointerVars, meterVars, storeVars, clipVars, trustVars, relayVars>>

vars == <<part, serviceVars, edgeVars>>

RecordsDef == {[hint |-> 1, addresses |-> {"a"}], [hint |-> 1, addresses |-> {"a", "b"}]}
DeskDef == [a |-> {1, 2}, b |-> {3, 4}]
HeightsDef(s) == [i \in 1 .. 4 |-> [w |-> 1, h |-> s[i]]]
SizesDef == {HeightsDef(<<1, 2, 2, 1>>)}

Init ==
    /\ part \in Parts
    /\ ListenerInit /\ WindowsInit /\ MacInit /\ RawInit /\ HidInit /\ DiscoveryInit /\ InventoryInit
    /\ MapInit /\ (part # "map" => layout = <<>>)
    /\ RuntimeInit /\ (part # "runtime" => observed = 1 /\ disk.trust = 0)
    /\ KeyInit /\ (part # "keys" => source = "mac")
    /\ PointerPathInit /\ (part # "moves" => edge = "hook")
    /\ StoreInit /\ (part # "store" => files.primary = NoFile)
    /\ MeterInit /\ ClipInit /\ TrustInit /\ RelayInit

Next ==
    \/ /\ part = "listener" /\ ListenerNext
       /\ UNCHANGED <<part, supervisorVars, win, hook, mac, tap, rawVars, hidVars, discoveryVars,
                      inventoryVars, mapVars, runtimeVars, edgeVars>>
    \/ /\ part = "windows" /\ WindowsNext
       /\ UNCHANGED <<part, listenerVars, mac, tap, rawVars, hidVars, discoveryVars,
                      inventoryVars, mapVars, runtimeVars, edgeVars>>
    \/ /\ part = "mac" /\ MacNext
       /\ UNCHANGED <<part, listenerVars, win, hook, rawVars, hidVars, discoveryVars,
                      inventoryVars, mapVars, runtimeVars, edgeVars>>
    \/ /\ part = "raw" /\ RawNext
       /\ UNCHANGED <<part, listenerVars, supervisorVars, win, hook, mac, tap, hidVars,
                      discoveryVars, inventoryVars, mapVars, runtimeVars, edgeVars>>
    \/ /\ part = "hid" /\ HidNext
       /\ UNCHANGED <<part, listenerVars, supervisorVars, win, hook, mac, tap, rawVars,
                      discoveryVars, inventoryVars, mapVars, runtimeVars, edgeVars>>
    \/ /\ part = "discovery" /\ DiscoveryNext
       /\ UNCHANGED <<part, listenerVars, supervisorVars, win, hook, mac, tap, rawVars, hidVars,
                      inventoryVars, mapVars, runtimeVars, edgeVars>>
    \/ /\ part = "inventory" /\ InventoryNext
       /\ UNCHANGED <<part, listenerVars, supervisorVars, win, hook, mac, tap, rawVars, hidVars,
                      discoveryVars, mapVars, runtimeVars, edgeVars>>
    \/ /\ part = "map" /\ MapNext
       /\ UNCHANGED <<part, listenerVars, supervisorVars, win, hook, mac, tap, rawVars, hidVars,
                      discoveryVars, inventoryVars, runtimeVars, edgeVars>>
    \/ /\ part = "runtime" /\ RuntimeNext
       /\ UNCHANGED <<part, listenerVars, supervisorVars, win, hook, mac, tap, rawVars, hidVars,
                      discoveryVars, inventoryVars, mapVars, edgeVars>>
    \/ /\ part = "keys" /\ KeyNext
       /\ UNCHANGED <<part, serviceVars, pointerVars, meterVars, storeVars, clipVars, trustVars, relayVars>>
    \/ /\ part = "moves" /\ PointerPathNext
       /\ UNCHANGED <<part, serviceVars, keyVars, meterVars, storeVars, clipVars, trustVars, relayVars>>
    \/ /\ part = "meter" /\ MeterNext
       /\ UNCHANGED <<part, serviceVars, keyVars, pointerVars, storeVars, clipVars, trustVars, relayVars>>
    \/ /\ part = "store" /\ StoreNext
       /\ UNCHANGED <<part, serviceVars, keyVars, pointerVars, meterVars, clipVars, trustVars, relayVars>>
    \/ /\ part = "clip" /\ ClipNext
       /\ UNCHANGED <<part, serviceVars, keyVars, pointerVars, meterVars, storeVars, trustVars, relayVars>>
    \/ /\ part = "trust" /\ TrustNext
       /\ UNCHANGED <<part, serviceVars, keyVars, pointerVars, meterVars, storeVars, clipVars, relayVars>>
    \/ /\ part = "relay" /\ RelayNext
       /\ UNCHANGED <<part, serviceVars, keyVars, pointerVars, meterVars, storeVars, clipVars, trustVars>>

\* The runtime polls the capture supervisor every few milliseconds and a native
\* call returns.  Only the macOS capture thread has to run: it is what looks at
\* its tap.
WindowsFairness ==
    /\ WF_windowsVars(/\ part = "windows" /\ poll_lifecycle(capture_lifecycle)
                       /\ UNCHANGED <<win, hook>>)
    /\ WF_windowsVars(part = "windows" /\ Owner)

MacFairness ==
    /\ WF_macVars(part = "mac" /\ poll_lifecycle(lifecycle_state) /\ UNCHANGED <<mac, tap>>)
    /\ WF_macVars(part = "mac" /\ MacOwner)
    /\ \A g \in Taps : WF_macVars(part = "mac" /\ TapThread(g))

\* The bridge is a task of the runtime, its ticker and the clock go on.  No
\* event is delivered after Horizon: the biased select would let an endless
\* flood of events starve the ticker.
DiscoveryFairness ==
    /\ WF_discoveryVars(part = "discovery" /\ BridgeEvent)
    /\ WF_discoveryVars(part = "discovery" /\ ExpiryTick)
    /\ WF_discoveryVars(part = "discovery" /\ BridgeStops)
    /\ WF_discoveryVars(part = "discovery" /\ TimePasses)

\* The process and its transport are scheduled, and its task looks at the
\* control file.
RuntimeFairness ==
    \A p \in Runs : /\ WF_runtimeVars(part = "runtime" /\ ProcessStep(p))
                    /\ WF_runtimeVars(part = "runtime" /\ managed_stop_requested(p))
                    /\ WF_runtimeVars(part = "runtime" /\ TransportEnds(p))

Spec == Init /\ [][Next]_vars /\ WindowsFairness /\ MacFairness /\ DiscoveryFairness /\ RuntimeFairness

-----------------------------------------------------------------------------
\* What is asked of service p: the others of this behaviour never leave an
\* initial state, which is one of p's own behaviours too.
Of(p, holds) == part = p => holds

\* Every service keeps the types of its state.
TypeOK ==
    /\ Of("listener", ListenerTypeOK) /\ Of("windows", WindowsTypeOK) /\ Of("mac", MacTypeOK)
    /\ Of("raw", RawTypeOK) /\ Of("hid", HidTypeOK) /\ Of("discovery", DiscoveryTypeOK)
    /\ Of("inventory", InventoryTypeOK) /\ Of("map", MapTypeOK) /\ Of("runtime", RuntimeTypeOK)
    /\ Of("keys", KeyTypeOK) /\ Of("moves", PointerPathTypeOK) /\ Of("meter", MeterTypeOK)
    /\ Of("store", StoreTypeOK) /\ Of("clip", ClipTypeOK) /\ Of("trust", TrustTypeOK)
    /\ Of("relay", RelayTypeOK)

\* Every socket the listener has taken is in one of its places and every permit
\* belongs to a task, so that a source that has been quiet is admitted again
\* (start_handshake, handle_handshake_join in listener.rs).
SocketsAccounted == Of("listener", PermitsAccounted /\ EverySocketAccounted /\ QuietSourceAdmitted)

\* No thread of either system has hooks, a tap or a registration installed
\* without the process-wide claim on them, whatever timed out, failed to be
\* removed or was started again (remove_whole_host_hooks, stop_whole_host_alpha,
\* stop_observing).
CaptureOwned ==
    Of("windows", HooksOwnSlot) /\ Of("mac", TapHoldsOwnership) /\ Of("raw", RegistrationOwned)




\* The panel shows the process that runs, which serves what is stored, and a
\* discovery adapter that was let go leaves no task (setup.rs, main.rs,
\* adapter.rs).
RuntimeIsShown ==
    Of("runtime", ShownStatusIsCurrent /\ ServesStoredSetup) /\ Of("discovery", NoBridgeLeftBehind)

\* The other computer has the same keys down and moved as far: nothing is lost
\* on the way from a hook through both key tables and roundings to an injected
\* event (key_was_held, recenter_pointer, take_integral_delta, inject_move).
InputArrives ==
    /\ Of("keys", SameKeysDown /\ NoStrayModifier)
    /\ Of("moves", MotionForwarded /\ FractionsAddUp /\ MovesAddUp)

\* A saved configuration survives every crash, no clipboard update makes
\* another, and the rate meter counts each event of its window once
\* (FileConfigStore::save, ClipboardSynchronizer, record).
LibrariesHold == Of("store", ConfigKept) /\ Of("clip", LoopFree) /\ Of("meter", WindowCounts)


\* What silently changed is noticed, so that it never lasts: an armed capture
\* without its hooks or its tap (poll_lifecycle), a stale candidate on offer
\* (expire), a process with a stop request (managed_stop_requested).
EventuallyNoticed == []<>~(ArmedWithoutHooks \/ ArmedWithoutTap \/ StaleOffered \/ StopPending)
=============================================================================
