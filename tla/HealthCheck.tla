----------------------------- MODULE HealthCheck -----------------------------
(***************************************************************************)
(* The status of SPIRE in the sidebar (components/spire-health-check.tsx): *)
(* timers that ask for it, and the rate they run at, which is in the store *)
(* and so survives the component and, in sessionStorage, the page.         *)
(*                                                                         *)
(* A timer that has ended starts the next one of its chain. A change of    *)
(* rate, even to the same, starts a chain beside those there are, none of  *)
(* which is cleared. The chains of a component that is gone go on and      *)
(* change nothing: only those of the mounted one are kept here. Time       *)
(* passes in the order of the steps alone: a timer may end at any time.    *)
(*                                                                         *)
(* Bounds: MaxChains of them, MaxChecks under way.                         *)
(***************************************************************************)
EXTENDS TornjakStore

CONSTANTS
    Options,        \* spireHealthCheckTimeOptions: <<number, unit>>
    MaxChains,
    MaxChecks

\* What is assumed of the constants.
HealthAssumption ==
    /\ Options \subseteq (Nat \X {"Secs", "Min", "Mins", "Hrs", "Hr", "Days", "Day"})
    /\ MaxChains \in Nat \ {0} /\ MaxChecks \in Nat

VARIABLES
    mounted,        \* the sidebar is open, and the component with it
    timers,         \* the delay each chain's pending timer was started with
    checks          \* how many requests for the status are under way

vars == <<store, mounted, timers, checks>>

\* convertDurationToSeconds
Seconds(option) ==
    option[1] * CASE option[2] \in {"Min", "Mins"} -> 60
                  [] option[2] \in {"Hrs", "Hr"} -> 60 * 60
                  [] option[2] \in {"Days", "Day"} -> 24 * 60 * 60
                  [] OTHER -> 1

Rates == {store.globalSpireHealthTime} \cup {Seconds(o) : o \in Options}

TypeOK ==
    /\ store.globalSpireHealthTime \in Nat
    /\ {store.globalSpireHealthCheck, store.globalSpireHealthChecking} \subseteq BOOLEAN
    /\ mounted \in BOOLEAN
    /\ timers \in Seq(Nat) /\ Len(timers) <= MaxChains
    /\ checks \in 0 .. MaxChecks

\* A status that is being asked for is not known: spireHealthCheck
Asking == <<spireHealthCheckingFunc(FALSE)>>

\* componentDidMount starts a timer and asks; the state it sets is a change of timer,
\* and componentDidUpdate asks again.
Mount ==
    /\ mounted' = TRUE
    /\ timers' = <<store.globalSpireHealthTime>>
    /\ checks + 2 <= MaxChecks
    /\ Dispatch(Asking)

Init ==
    /\ \E healthy, checking \in BOOLEAN, option \in Options :
         store = [InitialStore EXCEPT !.globalSpireHealthCheck = healthy,
                                      !.globalSpireHealthChecking = checking,
                                      !.globalSpireHealthTime = Seconds(option)]
    /\ mounted = FALSE /\ timers = <<>> /\ checks = 0

\* The sidebar is opened: toggleSidebar, or the page is loaded.
Open == ~mounted /\ Mount /\ checks' = checks + 2

\* The sidebar is closed. Its chains go on, and reach no component that would ask.
Close == mounted /\ mounted' = FALSE /\ timers' = <<>> /\ UNCHANGED <<store, checks>>

\* The page is loaded again: the answers of its requests reach nobody.
Reload == Mount /\ checks' = 2

\* A timer ends: its chain goes on at the rate there is now, and SPIRE is asked.
TimerEnds ==
    /\ checks < MaxChecks
    /\ \E i \in DOMAIN timers : timers' = [timers EXCEPT ![i] = store.globalSpireHealthTime]
    /\ Dispatch(Asking)
    /\ checks' = checks + 1
    /\ UNCHANGED mounted

\* Mutant: the new rate is left to the timers there are.
LeftToTheTimers(rate) ==
    /\ mounted
    /\ Len(timers) < MaxChains /\ checks < MaxChecks
    /\ Dispatch(<<spireHealthCheckRefreshTimeFunc(rate)>>)
    /\ UNCHANGED <<mounted, timers, checks>>

RateChanged(rate) == <<spireHealthCheckRefreshTimeFunc(rate), spireHealthCheckingFunc(FALSE)>>

\* onChangeSpireRefreshRate: the rate is a new object, even when it is the one there is,
\* and starts a chain; its timer is a change of state, with which SPIRE is asked.
OnChangeSpireRefreshRate(rate) ==
    /\ mounted
    /\ Len(timers) < MaxChains /\ checks < MaxChecks
    /\ Dispatch(RateChanged(rate))
    /\ timers' = Append(timers, rate)
    /\ checks' = checks + 1
    /\ UNCHANGED mounted

\* What an answer dispatches, and what a failure does.
Status(healthy, failed) ==
    <<spireHealthCheckFunc(healthy /\ ~failed), spireHealthCheckingFunc(TRUE)>>

Answered ==
    /\ checks > 0
    /\ \E healthy, failed \in BOOLEAN : Dispatch(Status(healthy, failed))
    /\ checks' = checks - 1
    /\ UNCHANGED <<mounted, timers>>

Next ==
    \/ Open
    \/ Close
    \/ Reload
    \/ TimerEnds
    \/ \E o \in Options : OnChangeSpireRefreshRate(Seconds(o))
    \/ Answered

Spec == Init /\ [][Next]_vars

----------------------------------------------------------------------------
\* While the sidebar shows the status, a timer is pending that was started at the rate
\* the user set last, however long those of the earlier rates have to run; and a status
\* shown as being asked for is: a request is under way, whatever came before it and
\* through every closing and loading of the page.
ChecksAtRate ==
    mounted =>
        /\ \E i \in DOMAIN timers : timers[i] = store.globalSpireHealthTime
        /\ store.globalSpireHealthChecking \/ checks > 0
=============================================================================
