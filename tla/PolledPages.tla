---------------------------- MODULE PolledPages ----------------------------
(***************************************************************************)
(* The pages that ask the backend themselves instead of through fetchApi:  *)
(* ThreatIntel, Honeypot, AIDetection, ThreatScoring, DeviceTopology and   *)
(* ShapExplainability poll it in a loop of their own, SystemLogs with an   *)
(* interval and a filter, SecurityAudit when it is opened and on a click.  *)
(*                                                                         *)
(* App mounts one page at a time (module Pages composes them).  The data   *)
(* of every endpoint has one version, data, which the other modules of the *)
(* composition advance.  An answer is the version at the time it comes; a  *)
(* timer fires some time after it is set.                                  *)
(***************************************************************************)
EXTENDS Integers, Sequences, FiniteSets, Functions

CONSTANTS
    PolledPages,  \* the polling pages of the model, of those below
    Loops,        \* bound: the polling loops there are at once; a page is left
                  \* only when one of them is off
    Filters,      \* the choices of level, service and limit of SystemLogs
    MaxInFlight,  \* bound on the requests of SystemLogs in flight
    Empties       \* the <<section, version>> that have nothing to show

ASSUME PolledAssumption == MaxInFlight \in Nat \ {0} /\ Filters # {}

VARIABLES
    page,       \* the page App shows
    data,       \* the version of the backend's data
    up,         \* the backend answers
    garbled,    \* an answer to the page shown had a body that could not be
                \* read, on this visit
    loop,       \* the polling loops, of this page and of pages left
    shown,      \* the version each part of the page shows, 0 before any
    filter,     \* SystemLogs: levelFilter, serviceFilter and limit
    autoRefresh,\* SystemLogs
    inFlight,   \* SystemLogs: its requests in flight, by filter
    logs,       \* SystemLogs: the filter of the entries shown, and whether any
    audit,      \* SecurityAudit: the version of the result shown
    auditing,   \* SecurityAudit: its requests are in flight
    loading     \* SystemLogs, SecurityAudit: the button is disabled

logVars == <<filter, autoRefresh, inFlight, logs>>
auditVars == <<audit, auditing>>
polledVars == <<up, garbled, loop, shown, logVars, auditVars, loading>>

(***************************************************************************)
(* What each page's loop awaits in turn; whether a failure leaves what is  *)
(* shown or blanks it; the section, if any, of which an answer that holds  *)
(* nothing leaves what is shown as well; and whether the loop survives a   *)
(* body that cannot be read: a fetcher that returns res.json() without     *)
(* awaiting it in its try rejects, and the loop ends there.                *)
(***************************************************************************)
Page == [reads |-> <<>>, blanks |-> FALSE, skips |-> "none", survives |-> FALSE]
ThreatIntel == [Page EXCEPT !.reads = <<"intel">>]
Honeypot == [Page EXCEPT !.reads = <<"honeypot">>]
AIDetection == [Page EXCEPT !.reads = <<"predict", "threats", "history">>]
ThreatScoring == [Page EXCEPT !.reads = <<"threats">>, !.blanks = TRUE]
DeviceTopology == [Page EXCEPT !.reads = <<"clients">>, !.blanks = TRUE]
ShapExplainability == [Page EXCEPT !.reads = <<"shap">>, !.skips = "explanations", !.survives = TRUE]

Poller == [intel |-> ThreatIntel, honeypot |-> Honeypot, ai |-> AIDetection,
           scoring |-> ThreatScoring, topology |-> DeviceTopology, shap |-> ShapExplainability]

Parts == {"intel", "honeypot", "predict", "threats", "history", "clients", "shap"}

(***************************************************************************)
(* What the user sees of the parts s: sections with the version they show, *)
(* or what stands in their place when there is nothing to show.            *)
(***************************************************************************)
Has(section, v) == v # 0 /\ <<section, v>> \notin Empties
Section(section, v) == IF Has(section, v) THEN {<<section, v>>} ELSE {}
SectionOr(placeholder, section, v) ==
    IF Has(section, v) THEN {<<section, v>>} ELSE {<<placeholder, 0>>}

IntelStats(s) == Section("stats", s.intel)
IntelDevices(s) == SectionOr("No devices in intelligence database", "devices", s.intel)

(* The counts are 0 when the monitor is off and sends no stats. *)
HoneypotCounts(s) == {<<"counts", IF Has("stats", s.honeypot) THEN s.honeypot ELSE 0>>}
ConfirmedAttackers(s) == Section("confirmed", s.honeypot)
UncorrelatedConnections(s) == Section("uncorrelated", s.honeypot)
DynamicCandidates(s) == Section("pending", s.honeypot)
HoneypotEmpty(s) == IF Has("stats", s.honeypot) THEN {} ELSE {<<"Not currently active", 0>>}

(* Online when the last prediction looked at frames. *)
modelOnline(s) == SectionOr("Model Offline", "Model Online", s.predict)
CurrentPrediction(s) == {<<"prediction", s.predict>>}
ActiveProfiles(s) == Section("profiles", s.threats)
PredictionHistory(s) == Section("history", s.history)

ScoringSummary(s) == {<<"summary", s.threats>>}
ThreatProfiles(s) == SectionOr("No threats", "profiles", s.threats)

(* The graph also has the access points, which are useScannedNetworks's.   *)
TopologyGraph(s) == Section("clients", s.clients)

Explanations(s) == SectionOr("No explanations", "explanations", s.shap)

Sections(k, s) ==
    CASE k = "intel" -> IntelStats(s) \cup IntelDevices(s)
      [] k = "honeypot" -> HoneypotCounts(s) \cup ConfirmedAttackers(s)
              \cup UncorrelatedConnections(s) \cup DynamicCandidates(s) \cup HoneypotEmpty(s)
      [] k = "ai" -> modelOnline(s) \cup CurrentPrediction(s)
              \cup ActiveProfiles(s) \cup PredictionHistory(s)
      [] k = "scoring" -> ScoringSummary(s) \cup ThreatProfiles(s)
      [] k = "topology" -> TopologyGraph(s)
      [] k = "shap" -> Explanations(s)

Off == [pc |-> "off", of |-> "none", cancelled |-> FALSE, todo |-> <<>>, got |-> <<>>]
Nothing == [p \in Parts |-> 0]
NoLogs == [of |-> "none", any |-> FALSE]
NoneInFlight == [f \in Filters |-> 0]
FirstFilter == CHOOSE f \in Filters : TRUE

PolledInit ==
    /\ up \in BOOLEAN /\ garbled = FALSE
    /\ loop = [l \in Loops |-> Off]
    /\ shown = Nothing
    /\ filter = FirstFilter /\ autoRefresh = TRUE
    /\ inFlight = NoneInFlight /\ logs = NoLogs
    /\ audit = 0 /\ auditing = FALSE /\ loading = FALSE

UpChanges ==
    /\ up' = ~up
    /\ UNCHANGED <<garbled, loop, shown, logVars, auditVars, loading>>

(***************************************************************************)
(* Mounting and unmounting.  An answer for a page that is gone finds no    *)
(* state to set, so the requests of SystemLogs and SecurityAudit may be    *)
(* forgotten with it; a loop goes on until it looks at cancelled.          *)
(***************************************************************************)
Asking(k) == [Off EXCEPT !.pc = "asked", !.of = k, !.todo = Poller[k].reads]

Cancelled(r) == IF r.pc = "off" THEN r ELSE [r EXCEPT !.cancelled = TRUE, !.got = <<>>]
FreeLoop == CHOOSE l \in Loops : loop[l].pc = "off"

MountPolled(new) ==
    /\ \E l \in Loops : loop[l].pc = "off"
    /\ loop' = [m \in Loops |-> IF m = FreeLoop /\ new \in PolledPages
                                THEN Asking(new) ELSE Cancelled(loop[m])]
    /\ shown' = Nothing
    /\ filter' = FirstFilter /\ autoRefresh' = TRUE /\ logs' = NoLogs
    /\ inFlight' = [f \in Filters |-> IF new = "logs" /\ f = FirstFilter THEN 1 ELSE 0]
    /\ audit' = 0 /\ auditing' = (new = "audit")
    /\ loading' = (new \in {"logs", "audit"})
    /\ garbled' = FALSE
    /\ UNCHANGED up

(***************************************************************************)
(* The polling loop of a page.                                             *)
(***************************************************************************)
Becomes(l, r) == loop' = [loop EXCEPT ![l] = r]

(* What the page shows of the answers got to its reads. *)
ShownOf(k, got) ==
    [p \in Parts |->
        LET at == {n \in 1..Len(got) : Poller[k].reads[n] = p} IN
        IF at = {} THEN shown[p]
        ELSE LET n == CHOOSE n \in at : TRUE IN
             IF (got[n] = 0 /\ ~Poller[k].blanks) \/ <<Poller[k].skips, got[n]>> \in Empties
             THEN shown[p] ELSE got[n]]

(* Mutant: a poll that got nothing sets no timer. *)
AnsweredNoRetry(l, a) ==
    LET r == loop[l]
        got == IF r.cancelled THEN <<>> ELSE Append(r.got, a)
    IN
    IF Len(r.todo) > 1
    THEN Becomes(l, [r EXCEPT !.todo = Tail(@), !.got = got]) /\ UNCHANGED shown
    ELSE IF r.cancelled \/ a = 0
    THEN Becomes(l, Off) /\ UNCHANGED shown
    ELSE /\ shown' = ShownOf(r.of, got)
         /\ Becomes(l, [Off EXCEPT !.pc = "timer", !.of = r.of])

(* Mutant: cancelled is looked at before the state is set, not before the  *)
(* timer is.                                                               *)
AnsweredGoesOn(l, a) ==
    LET r == loop[l]
        got == IF r.cancelled THEN <<>> ELSE Append(r.got, a)
    IN
    IF Len(r.todo) > 1
    THEN Becomes(l, [r EXCEPT !.todo = Tail(@), !.got = got]) /\ UNCHANGED shown
    ELSE /\ IF r.cancelled THEN UNCHANGED shown ELSE shown' = ShownOf(r.of, got)
         /\ Becomes(l, [Off EXCEPT !.pc = "timer", !.of = r.of, !.cancelled = r.cancelled])

(* An answer comes, or the last of the URLs the fetcher tries has failed.  *)
(* After the last read, a cancelled loop ends, and another shows what it   *)
(* got and sets its timer; what a cancelled loop gets is not kept.          *)
Answered(l, a) ==
    LET r == loop[l]
        got == IF r.cancelled THEN <<>> ELSE Append(r.got, a)
    IN
    IF Len(r.todo) > 1
    THEN Becomes(l, [r EXCEPT !.todo = Tail(@), !.got = got]) /\ UNCHANGED shown
    ELSE IF r.cancelled
    THEN Becomes(l, Off) /\ UNCHANGED shown
    ELSE /\ shown' = ShownOf(r.of, got)
         /\ Becomes(l, [Off EXCEPT !.pc = "timer", !.of = r.of])

Answer(l) ==
    /\ loop[l].pc = "asked"
    /\ Answered(l, IF up THEN data ELSE 0)
    /\ UNCHANGED <<up, garbled, logVars, auditVars, loading>>

(* The body ends early or is no JSON.  Bound: the page shown gets one such *)
(* answer on a visit.                                                      *)
GarbledAnswer(l) ==
    /\ loop[l].pc = "asked" /\ up
    /\ loop[l].cancelled \/ ~garbled
    /\ garbled' = (garbled \/ ~loop[l].cancelled)
    /\ IF Poller[loop[l].of].survives
       THEN Answered(l, 0)
       ELSE Becomes(l, Off) /\ UNCHANGED shown
    /\ UNCHANGED <<up, logVars, auditVars, loading>>

(* The clean-up leaves the timer running: a page that is gone asks once    *)
(* more before its loop sees that it is cancelled.                         *)
PollTimer(l) ==
    /\ loop[l].pc = "timer"
    /\ Becomes(l, [Asking(loop[l].of) EXCEPT !.cancelled = loop[l].cancelled])
    /\ UNCHANGED <<up, garbled, shown, logVars, auditVars, loading>>

(***************************************************************************)
(* SystemLogs.                                                             *)
(***************************************************************************)
Few == FoldFunctionOnSet(+, 0, inFlight, Filters) < MaxInFlight

(* refresh, from the interval, a click, or the effect on a new filter.     *)
refresh(f) ==
    /\ inFlight' = [inFlight EXCEPT ![f] = @ + 1]
    /\ loading' = TRUE

(* Mutant: the interval keeps the filter the page was opened with. *)
IntervalTickFirstFilter ==
    /\ page = "logs" /\ autoRefresh /\ Few
    /\ refresh(FirstFilter)
    /\ UNCHANGED <<up, garbled, loop, shown, filter, autoRefresh, logs, auditVars>>

IntervalTick ==
    /\ page = "logs" /\ autoRefresh /\ Few
    /\ refresh(filter)
    /\ UNCHANGED <<up, garbled, loop, shown, filter, autoRefresh, logs, auditVars>>

ClickRefresh ==
    /\ page = "logs" /\ ~loading /\ Few
    /\ refresh(filter)
    /\ UNCHANGED <<up, garbled, loop, shown, filter, autoRefresh, logs, auditVars>>

ChooseFilter(f) ==
    /\ page = "logs" /\ Few /\ f # filter
    /\ filter' = f
    /\ refresh(f)
    /\ UNCHANGED <<up, garbled, loop, shown, autoRefresh, logs, auditVars>>

ToggleLive ==
    /\ page = "logs"
    /\ autoRefresh' = ~autoRefresh
    /\ UNCHANGED <<up, garbled, loop, shown, filter, inFlight, logs, auditVars, loading>>

(* Answers come in any order; each is shown, a failure as no entries, and  *)
(* the first to come enables the button again.                             *)
LogAnswer(f) ==
    /\ inFlight[f] > 0
    /\ inFlight' = [inFlight EXCEPT ![f] = @ - 1]
    /\ logs' = [of |-> f, any |-> up]
    /\ loading' = FALSE
    /\ UNCHANGED <<up, garbled, loop, shown, filter, autoRefresh, auditVars>>

(* An answer that is no JSON: refresh throws, and the button stays as it   *)
(* was disabled.  Bound: one unreadable answer on a visit.                 *)
LogGarbled(f) ==
    /\ inFlight[f] > 0 /\ up /\ ~garbled
    /\ garbled' = TRUE
    /\ inFlight' = [inFlight EXCEPT ![f] = @ - 1]
    /\ UNCHANGED <<up, loop, shown, filter, autoRefresh, logs, auditVars, loading>>

(***************************************************************************)
(* SecurityAudit.                                                          *)
(***************************************************************************)
runAudit ==
    /\ page = "audit" /\ ~loading
    /\ loading' = TRUE /\ auditing' = TRUE
    /\ UNCHANGED <<up, garbled, loop, shown, logVars, audit>>

(* A check that failed keeps the result of an earlier one on the page. *)
AuditAnswer ==
    /\ page = "audit" /\ auditing
    /\ audit' = IF up THEN data ELSE audit
    /\ auditing' = FALSE /\ loading' = FALSE
    /\ UNCHANGED <<up, garbled, loop, shown, logVars>>

(* runAudit throws: the button stays disabled until the page is left.      *)
AuditGarbled ==
    /\ page = "audit" /\ auditing /\ up /\ ~garbled
    /\ garbled' = TRUE /\ auditing' = FALSE
    /\ UNCHANGED <<up, loop, shown, logVars, audit, loading>>

(***************************************************************************)
(* The steps of this module, and their fairness.                           *)
(***************************************************************************)
LoopStep(l) == Answer(l) \/ GarbledAnswer(l) \/ PollTimer(l)

PolledNext ==
    \/ UpChanges
    \/ \E l \in Loops : LoopStep(l)
    \/ IntervalTick \/ ClickRefresh \/ ToggleLive
    \/ \E f \in Filters : ChooseFilter(f) \/ LogAnswer(f) \/ LogGarbled(f)
    \/ runAudit \/ AuditAnswer \/ AuditGarbled

=============================================================================
