------------------------- MODULE ServerStartupProofs -------------------------
(* Theorems of ServerStartup, for every plugin list a file may hold.         *)
EXTENDS ServerStartup, TLAPS

USE PluginListsAssumption

\* The first states satisfy the inductive invariant.
LEMMA InitInv == Init => IndInv
<1> SUFFICES ASSUME Init PROVE IndInv
    OBVIOUS
<1> USE DEF Init
<1>1. config.plugins \in Seq(Blocks)
    BY DEF Configs
<1>2. TypeOK
    BY <1>1 DEF TypeOK, Configs, Listeners, Phases, ChannelSize
<1>3. Counted /\ Mode /\ Loop /\ ReturnsOnlyWhenDown
    BY DEF Counted, Mode, Loop, ReturnsOnlyWhenDown, Listeners
<1> QED
    BY <1>2, <1>3 DEF IndInv

\* Every step preserves it.
LEMMA StepInv == IndInv /\ [Next]_vars => IndInv'
<1> SUFFICES ASSUME IndInv, [Next]_vars PROVE IndInv'
    OBVIOUS
<1> USE DEF IndInv
<1>0. config.plugins \in Seq(Blocks)
    BY DEF TypeOK, Configs
<1>1. CASE VerifyConfiguration
    BY <1>1, <1>0 DEF VerifyConfiguration, network, TypeOK, Counted, Mode, Loop,
        Filled, ReturnsOnlyWhenDown, Owed, Listeners, PluginTypes
<1>2. CASE ConfigurePlugin
    <2> USE <1>2 DEF ConfigurePlugin, network
    <2>0. pc' \in {"plugins", "fatal"} /\ next' \in {next, next + 1}
        OBVIOUS
    <2>1. TypeOK'
        <3>1. Len(config.plugins) \in Nat /\ next \in 1 .. Len(config.plugins)
            BY <1>0 DEF TypeOK
        <3>2. next' \in 1 .. Len(config.plugins) + 1
            BY <2>0, <3>1
        <3>3. plugin' = plugin
                \/ (Block.type \in PluginTypes
                      /\ plugin' = [plugin EXCEPT ![Block.type] = next])
            OBVIOUS
        <3>4. plugin' \in [PluginTypes -> 1 .. Len(config.plugins) \cup {Defaulted}]
            BY <3>1, <3>3 DEF TypeOK
        <3> QED
            BY <2>0, <3>2, <3>4 DEF TypeOK
    <2>2. Counted' /\ Mode' /\ ReturnsOnlyWhenDown'
        BY DEF Counted, Mode, Owed, ReturnsOnlyWhenDown, Listeners, Filled
    <2>3. Loop'
        <3>1. CASE pc' = "fatal"
            BY <3>1 DEF Loop
        <3>2. CASE pc' /= "fatal"
            <4>1. pc' = "plugins" /\ next' = next + 1 /\ config' = config
                BY <3>2
            <4>2. ASSUME NEW t \in PluginTypes PROVE Filled(t, next)'
                <5>1. Filled(t, next) /\ next \in Nat /\ next >= 1
                    BY DEF Loop, TypeOK
                <5>2. CASE Block.type = t
                    <6>1. plugin'[t] = next /\ Block.accepted
                        BY <3>2, <5>2, <4>2 DEF TypeOK, PluginTypes
                    <6> QED
                        BY <6>1, <5>1, <5>2, <4>1 DEF Filled, Block
                <5>3. CASE Block.type /= t
                    <6>1. plugin'[t] = plugin[t]
                        BY <3>2, <5>3, <4>2 DEF TypeOK
                    <6> QED
                        BY <6>1, <5>1, <5>3, <4>1 DEF Filled, Block
                <5> QED
                    BY <5>2, <5>3
            <4> QED
                BY <4>1, <4>2 DEF Loop
        <3> QED
            BY <3>1, <3>2
    <2> QED
        BY <2>1, <2>2, <2>3
<1>3. CASE Configured
    <2>1. next = Len(config.plugins) + 1
        BY <1>3, <1>0 DEF Configured, TypeOK
    <2> QED
        BY <1>3, <2>1 DEF Configured, network, TypeOK, Counted, Mode, Loop,
            Filled, Owed, ReturnsOnlyWhenDown, Listeners
<1>4. CASE NoHTTPConfig
    BY <1>4, <1>0 DEF NoHTTPConfig, TypeOK, Counted, Mode, Loop, Filled, Owed,
        ReturnsOnlyWhenDown, Listeners, ChannelSize
<1>5. CASE ListenPlain
    BY <1>5, <1>0 DEF ListenPlain, TypeOK, Counted, Mode, Loop, Filled, Owed,
        ReturnsOnlyWhenDown, Listeners, Phases, ChannelSize
<1>6. CASE ListenFallback
    BY <1>6, <1>0 DEF ListenFallback, TypeOK, Counted, Mode, Loop, Filled, Owed,
        ReturnsOnlyWhenDown, Listeners, Phases, ChannelSize
<1>7. CASE ListenSecure
    BY <1>7, <1>0 DEF ListenSecure, TypeOK, Counted, Mode, Loop, Filled, Owed,
        ReturnsOnlyWhenDown, Listeners, Phases, ChannelSize
<1>8. ASSUME NEW l \in Listeners, Bind(l) PROVE IndInv'
    BY <1>8, <1>0 DEF Bind, TypeOK, Counted, Mode, Loop, Filled, Owed,
        ReturnsOnlyWhenDown, Listeners, Phases
<1>9. ASSUME NEW l \in Listeners, ListenAndServeReturns(l) PROVE IndInv'
    BY <1>9, <1>0 DEF ListenAndServeReturns, TypeOK, Counted, Mode, Loop, Filled,
        Owed, ReturnsOnlyWhenDown, Listeners, Phases
<1>10. ASSUME NEW l \in Listeners, Report(l) PROVE IndInv'
    <2> USE <1>10 DEF Report
    <2>1. Len(errChannel') = Len(errChannel) + 1
        BY DEF TypeOK
    <2>2. TypeOK'
        BY <2>1, <1>0 DEF TypeOK, Listeners, Phases, ChannelSize
    <2>3. Counted'
        BY <2>1 DEF Counted, TypeOK, Owed, Listeners
    <2> QED
        BY <2>2, <2>3 DEF Mode, Loop, Filled, ReturnsOnlyWhenDown, Listeners
<1>11. CASE ReadError
    <2> USE <1>11 DEF ReadError
    <2>1. Len(errChannel') = Len(errChannel) - 1 /\ Len(errChannel) >= 1
        BY DEF TypeOK
    <2>2. TypeOK'
        BY <2>1, <1>0 DEF TypeOK, ChannelSize, Mode
    <2>3. Counted'
        BY <2>1 DEF Counted, TypeOK, Owed, Listeners
    <2>4. ReturnsOnlyWhenDown'
        BY <2>1 DEF Counted, TypeOK, Owed, Listeners, Phases, ReturnsOnlyWhenDown
    <2>5. Mode'
        BY DEF Mode, TypeOK
    <2>6. Loop'
        BY DEF Loop, Filled
    <2> QED
        BY <2>2, <2>3, <2>4, <2>5, <2>6
<1>12. CASE UNCHANGED vars
    BY <1>12 DEF vars, TypeOK, Counted, Mode, Loop, Filled, Owed, ReturnsOnlyWhenDown
<1>13. CASE Done
    BY <1>12, <1>13 DEF Done
<1> QED
    BY <1>1, <1>2, <1>3, <1>4, <1>5, <1>6, <1>7, <1>8, <1>9, <1>10, <1>11,
       <1>12, <1>13 DEF Next

\* The inductive invariant holds of every run of HandleRequests.
THEOREM Invariant == Spec => []IndInv
    BY InitInv, StepInv, PTL DEF Spec

\* Whatever the plugin list, whoever is served is served by the last block of
\* each type, each of them accepted by its constructor.
THEOREM ConfigurationHonoured == Spec => []ServesAsConfigured
<1>1. IndInv => ServesAsConfigured
    BY DEF IndInv, Loop, ServesAsConfigured, Serving
<1> QED
    BY <1>1, Invariant, PTL

\* The API answers on the HTTP port only in a file without usable HTTPS.
THEOREM NoClearAPIBesideHTTPS == Spec => []ClearOnlyWithoutHTTPS
<1>1. IndInv => ClearOnlyWithoutHTTPS
    BY DEF IndInv, Mode, ClearOnlyWithoutHTTPS
<1> QED
    BY <1>1, Invariant, PTL

\* No goroutine ever waits for room in the error channel.
THEOREM ChannelNeverFull == Spec => []ReportsNeverBlock
<1>1. IndInv => ReportsNeverBlock
    <2> SUFFICES ASSUME IndInv, NEW l \in Listeners, listener[l] = "sending"
                 PROVE Len(errChannel) < ChannelSize
        BY DEF ReportsNeverBlock
    <2>1. CASE pc = "wait"
        BY <2>1 DEF IndInv, TypeOK, Counted, Owed, Listeners, ChannelSize
    <2>2. CASE pc /= "wait"
        BY <2>2 DEF IndInv, TypeOK, Mode, ReturnsOnlyWhenDown, Listeners
    <2> QED
        BY <2>1, <2>2
<1> QED
    BY <1>1, Invariant, PTL

\* HandleRequests returns only when none of its goroutines serves or will.
THEOREM ReturnsLast == Spec => []ReturnsOnlyWhenDown
<1>1. IndInv => ReturnsOnlyWhenDown
    BY DEF IndInv
<1> QED
    BY <1>1, Invariant, PTL
=============================================================================
