----------------------------- MODULE RequestFront -----------------------------
(***************************************************************************)
(* RequestFront: what MeshRouterServer.handle and handleUpgrade do with a   *)
(* request before and around proxying: management, error pages, incident    *)
(* reports, draining, requests that have come through too many proxies; and *)
(* the counts of RouterMetrics that tell of the outcome.                    *)
(*                                                                         *)
(* Selection and proxying end in any way (Routing and RouterServer have     *)
(* them).  The target of a request may be this router: the request comes    *)
(* back and is handled again, one hop further, and its answer is passed on. *)
(***************************************************************************)
EXTENDS Naturals, FiniteSets

CONSTANTS
  Requests,
  Kinds,          \* what a request may be
  RetryAttempts,  \* config.router.targetRetry.attempts
  MaxHops,        \* the proxies a request may have passed
  HopBound        \* bound: larger numbers of hops are not told apart

ASSUME FrontAssumption ==
  /\ IsFiniteSet(Requests)
  /\ RetryAttempts \in Nat \ {0} /\ MaxHops \in Nat /\ HopBound \in Nat /\ HopBound > MaxHops
  /\ \A k \in Kinds :
       /\ k.upgrade \in BOOLEAN /\ k.hops \in 0..HopBound
       /\ k.to \in {"nowhere", "management", "errors", "report", "service"}
       /\ k.body \in {"valid", "invalid", "large", "cut"}

VARIABLES
  kind,       \* what each request is
  at,         \* how far its handler is
  attempt,    \* the attempts behind it
  hops,       \* the length of its x-forwarded-for
  answer,     \* what its client got
  sent,       \* the requests of which something may have reached a target
  queue,      \* IncidentReportSink: the reports in pending.jsonl
  noTarget,   \* RouterMetrics
  errors,     \* RouterMetrics
  draining

metrics == <<noTarget, errors>>
frontVars == <<kind, at, attempt, hops, answer, sent, queue, metrics, draining>>

FrontInit ==
  /\ kind \in [Requests -> Kinds]
  /\ at = [r \in Requests |-> "new"]
  /\ attempt = [r \in Requests |-> 0]
  /\ hops = [r \in Requests |-> kind[r].hops]
  /\ answer = [r \in Requests |-> "none"]
  /\ sent = {} /\ queue = {}
  /\ noTarget = 0 /\ errors = 0
  /\ draining = FALSE

-----------------------------------------------------------------------------
Goes(r, to) ==
  /\ at' = [at EXCEPT ![r] = to]
  /\ attempt' = [attempt EXCEPT ![r] = 0]
  /\ UNCHANGED answer

Reply(r, what) ==
  /\ at' = [at EXCEPT ![r] = "over"]
  /\ attempt' = [attempt EXCEPT ![r] = 0]
  /\ answer' = [answer EXCEPT ![r] = what]

MoreAttempts(r) == attempt[r] < RetryAttempts - 1

\* The catch of handle and handleUpgrade.
Fail(r) == Reply(r, "failed") /\ errors' = errors + 1 /\ UNCHANGED noTarget

\* Mutant of RefuseUntargeted: a report is queued after all.
QueueUntargeted(r) ==
  /\ noTarget' = noTarget + 1 /\ UNCHANGED errors
  /\ IF kind[r].to = "report"
     THEN Reply(r, "queued") /\ queue' = queue \cup {r}
     ELSE Reply(r, "noTarget") /\ UNCHANGED queue

\* 503 for want of a target, as a page or JSON.
RefuseUntargeted(r) ==
  /\ noTarget' = noTarget + 1 /\ UNCHANGED <<errors, queue>>
  /\ Reply(r, "noTarget")

\* Mutant of AddHop: the header is replaced.
OneHop(h) == 1

\* ProxyHeaders.build appends the client's address to x-forwarded-for.
AddHop(h) == IF h < HopBound THEN h + 1 ELSE h

TooFar(r) == hops[r] > MaxHops

\* Past the checks, unless the request has passed too many proxies.
Admit(r) == IF TooFar(r) THEN Reply(r, "loop") ELSE Goes(r, "routing")

\* handle, up to its first await.  Upgrades are not looked at but for draining.
NewRequest(r) == at[r] = "new" /\ ~kind[r].upgrade

BadUrl(r) ==
  /\ NewRequest(r) /\ kind[r].to = "nowhere"
  /\ Fail(r)
  /\ UNCHANGED <<kind, hops, sent, queue, draining>>

\* Management is answered while draining too, and so is an error page.
Manage(r) ==
  /\ NewRequest(r) /\ kind[r].to = "management"
  /\ Reply(r, "served")
  /\ UNCHANGED <<kind, hops, sent, queue, metrics, draining>>

ServePage(r) ==
  /\ NewRequest(r) /\ kind[r].to = "errors"
  /\ Reply(r, "served")
  /\ UNCHANGED <<kind, hops, sent, queue, metrics, draining>>

\* Mutant of Screened: a report looks for a target also while draining.
AlwaysScreened(r) == TRUE

\* Whether a report looks for a target before it is queued.
Screened(r) == ~draining

Report(r) ==
  /\ NewRequest(r) /\ kind[r].to = "report"
  /\ Goes(r, IF Screened(r) THEN "screening" ELSE "reading")
  /\ UNCHANGED <<kind, hops, sent, queue, metrics, draining>>

Request(r) ==
  /\ NewRequest(r) /\ kind[r].to = "service"
  /\ IF draining THEN Reply(r, "draining") ELSE Admit(r)
  /\ UNCHANGED <<kind, hops, sent, queue, metrics, draining>>

Upgrade(r) ==
  /\ at[r] = "new" /\ kind[r].upgrade
  /\ IF draining THEN Reply(r, "draining") /\ UNCHANGED metrics
     ELSE IF kind[r].to = "nowhere" THEN Fail(r)
     ELSE Goes(r, "upgrading") /\ UNCHANGED metrics
  /\ UNCHANGED <<kind, hops, sent, queue, draining>>

-----------------------------------------------------------------------------
(* Selection and proxying                                                   *)

Pause(r, to) ==
  /\ at' = [at EXCEPT ![r] = to]
  /\ attempt' = [attempt EXCEPT ![r] = @ + 1]
  /\ UNCHANGED answer

\* No target: try again after a while; when all attempts are used up, a report
\* that was looking for one is queued.
NotSelected(r) ==
  /\ at[r] \in {"screening", "routing", "upgrading"}
  /\ IF MoreAttempts(r) THEN Pause(r, at[r]) /\ UNCHANGED <<metrics, queue>>
     ELSE IF at[r] = "screening" THEN Goes(r, "reading") /\ UNCHANGED <<metrics, queue>>
     ELSE RefuseUntargeted(r)
  /\ UNCHANGED <<kind, hops, sent, draining>>

\* The registry cannot be asked: selectTarget throws into the catch.
SelectionFails(r) ==
  /\ at[r] \in {"screening", "routing", "upgrading"}
  /\ Fail(r)
  /\ UNCHANGED <<kind, hops, sent, queue, draining>>

\* A target for the report: it is routed like any other request, from anew.
Forward(r) ==
  /\ at[r] = "screening"
  /\ Admit(r)
  /\ UNCHANGED <<kind, hops, sent, queue, metrics, draining>>

Selected(r) ==
  /\ at[r] \in {"routing", "upgrading"}
  /\ at' = [at EXCEPT ![r] = IF @ = "routing" THEN "proxying" ELSE "tunnel"]
  /\ UNCHANGED <<kind, attempt, hops, answer, sent, queue, metrics, draining>>

Answered(r) ==
  /\ at[r] \in {"proxying", "tunnel"}
  /\ Reply(r, "target")
  /\ sent' = sent \cup {r}
  /\ UNCHANGED <<kind, hops, queue, metrics, draining>>

\* The target is this router.
ComesBack(r) ==
  /\ at[r] \in {"proxying", "tunnel"}
  /\ Goes(r, "new")
  /\ hops' = [hops EXCEPT ![r] = AddHop(@)]
  /\ UNCHANGED <<kind, sent, queue, metrics, draining>>

Retry(r) == Pause(r, "routing") /\ UNCHANGED metrics

\* A transient error is retried, any other is the end; an upgrade's sockets go.
TargetFails(r) ==
  /\ \/ at[r] = "proxying" /\ MoreAttempts(r) /\ Retry(r)
     \/ at[r] = "proxying" /\ Fail(r)
     \/ at[r] = "tunnel" /\ Reply(r, "dropped") /\ UNCHANGED metrics
  /\ sent' = sent \cup {r}
  /\ UNCHANGED <<kind, hops, queue, draining>>

-----------------------------------------------------------------------------
\* IncidentReportSink.accept: the request of a body too large is destroyed
\* before its 413 is written, and one that is cut has nobody to answer.
Accept(r) ==
  /\ at[r] = "reading"
  /\ Reply(r, CASE kind[r].body = "valid" -> "queued"
                 [] kind[r].body = "invalid" -> "rejected"
                 [] OTHER -> "dropped")
  /\ queue' = IF kind[r].body = "valid" THEN queue \cup {r} ELSE queue
  /\ UNCHANGED <<kind, hops, sent, metrics, draining>>

Drain ==
  /\ ~draining /\ draining' = TRUE
  /\ UNCHANGED <<kind, at, attempt, hops, answer, sent, queue, metrics>>

Turn(r) ==
  \/ BadUrl(r) \/ Manage(r) \/ ServePage(r) \/ Report(r) \/ Request(r) \/ Upgrade(r)
  \/ NotSelected(r) \/ SelectionFails(r) \/ Forward(r) \/ Selected(r)
  \/ Answered(r) \/ ComesBack(r) \/ TargetFails(r)
  \/ Accept(r)

FrontNext == Drain \/ \E r \in Requests : Turn(r)

FrontSpec == FrontInit /\ [][FrontNext]_frontVars

\* The event loop runs the handlers; targets answer, fail or are timed out.
FrontFairSpec == FrontSpec /\ \A r \in Requests : WF_frontVars(Turn(r))

-----------------------------------------------------------------------------
Answers == {"none", "served", "draining", "loop", "noTarget", "failed", "target", "queued", "rejected", "dropped"}
Behind == {"screening", "routing", "proxying", "upgrading", "tunnel"}

\* The type invariant; a request that is over has an answer.
FrontTypeOK ==
  /\ kind \in [Requests -> Kinds]
  /\ at \in [Requests -> {"new", "reading", "over"} \cup Behind]
  /\ attempt \in [Requests -> 0..RetryAttempts - 1]
  /\ hops \in [Requests -> 0..HopBound]
  /\ answer \in [Requests -> Answers]
  /\ sent \subseteq Requests /\ queue \subseteq Requests
  /\ noTarget \in Nat /\ errors \in Nat /\ draining \in BOOLEAN
  /\ \A r \in Requests : at[r] = "over" <=> answer[r] # "none"

CountsAreTrue ==
  /\ errors = Cardinality({r \in Requests : answer[r] = "failed"})
  /\ noTarget = Cardinality({r \in Requests : answer[r] = "noTarget"})

QueuedApart ==
  /\ queue = {r \in Requests : answer[r] = "queued"}
  /\ \A r \in queue \cap sent : hops[r] > kind[r].hops

\* What is queued and counted agrees with the answers clients got.  A report in
\* the queue has been acknowledged, and no attempt to hand it to a target came
\* before, unless it came back after one: it can be reported later without
\* being reported twice.  There are as many errors as requests answered with
\* 502, and as many without a target as refused for it, however often they were
\* retried or came back (MeshRouterServer.handle, IncidentReportSink.accept).
AnswersAreTrue == FrontTypeOK /\ QueuedApart /\ CountsAreTrue

\* While the router drains nothing more gets behind the front, neither what
\* comes in nor a report nor what comes back (MeshRouterServer.handle).
AtBack == {r \in Requests : at[r] \in Behind}
DrainingTakesNothing == [][draining => AtBack' \subseteq AtBack]_frontVars

\* A request that is passed round in a loop is answered in the end (the hop
\* count of handle and of ProxyHeaders.build; upgrades have no such check).
LoopsEnd == \A r \in Requests : kind[r].upgrade \/ <>(at[r] = "over")
===============================================================================
